---- MODULE Spec2Model ----
(***************************************************************************)
(* Model of the recommendation core of the Music-Therapy repository:       *)
(*   - recommendation_logic.py : EMOTION_TO_VA, EMOTION_TRANSITIONS,       *)
(*     get_va_coordinates, find_emotion_path and its two path synthesizers *)
(*   - music_engine.py         : _normalize_series_to_minus1_1,            *)
(*     preprocess_data, MusicEngine.is_ready, get_songs_in_va_range        *)
(*   - recommendation_logic.py : AdvancedMusicRecommender.generate_playlist*)
(*     as the steps of a call (entry, head of a segment, one transition    *)
(*     point, foot of a segment) over numpy's global generator             *)
(*                                                                         *)
(* Strings are sequences of one-character strings so that str.lower() and  *)
(* str.strip() are computed character by character.  Coordinates of the    *)
(* valence-arousal table are scaled by 100 (0.35 is 35).  Corpus values    *)
(* are rationals <<numerator, denominator>> with a positive denominator.   *)
(***************************************************************************)
EXTENDS Integers, Sequences, FiniteSets, TLC

VARIABLES
    start_in, target_in,   \* arguments of find_emotion_path
    pc,                    \* position in find_emotion_path: "call", "loop", "done"
    start, target,         \* the normalized locals (lines 112-113)
    queue,                 \* deque of <<emotion, path>> (line 119)
    visited,               \* set of emotions (line 120)
    found_paths,           \* list of paths (line 123)
    result,                \* value returned by find_emotion_path
    emotion,               \* argument of get_va_coordinates (Optional[str])
    va_pc,                 \* "idle", "call", "done"
    va_result,             \* value returned by get_va_coordinates
    raw,                   \* the frame load_music_data returned
    df,                    \* MusicEngine.df: a sequence of rows
    df_pc,                 \* "idle", "raw", "loaded"
    columns,               \* MusicEngine.df.columns
    query,                 \* arguments of get_songs_in_va_range
    q_pc,                  \* "idle", "call", "done"
    songs,                 \* rows returned by get_songs_in_va_range
    np_random,             \* state of numpy's global generator
    calls,                 \* the calls of generate_playlist, by caller
    tr_args,               \* arguments of _gradient_based_transition
    tr_pc,                 \* "idle", "call", "done"
    transitions,           \* the list _gradient_based_transition returned
    scan_args,             \* a fractional point and the emotions already used
    scan_pc,               \* "idle", "call", "done"
    scan_result,           \* the emotion each synthesizer's scan picked
    session                \* st.session_state of the app

pathVars == <<start_in, target_in, pc, start, target, queue, visited, found_paths, result>>
vaVars == <<emotion, va_pc, va_result>>
corpusVars == <<raw, df, df_pc, columns>>
queryVars == <<query, q_pc, songs>>
playVars == <<np_random, calls>>
transVars == <<tr_args, tr_pc, transitions>>
scanVars == <<scan_args, scan_pc, scan_result>>
vars == <<pathVars, vaVars, corpusVars, queryVars, playVars, transVars, scanVars, session>>

Abs(x) == IF x < 0 THEN -x ELSE x

----------------------------------------------------------------------------
(* Strings *)

UpperChars == <<"A","B","C","D","E","F","G","H","I","J","K","L","M",
                "N","O","P","Q","R","S","T","U","V","W","X","Y","Z">>
LowerChars == <<"a","b","c","d","e","f","g","h","i","j","k","l","m",
                "n","o","p","q","r","s","t","u","v","w","x","y","z">>

\* the characters str.strip() removes (ASCII whitespace)
Whitespace == {" ", "\t", "\n"}

\* the lower-case letter of every upper-case letter
LowerOf ==
    [c \in {UpperChars[i] : i \in 1..Len(UpperChars)} |->
        LowerChars[CHOOSE i \in 1..Len(UpperChars) : UpperChars[i] = c]]

LowerChar(c) == IF c \in DOMAIN LowerOf THEN LowerOf[c] ELSE c

\* str.lower()
Lower(s) == [i \in 1..Len(s) |-> LowerChar(s[i])]

RECURSIVE LStrip(_)
LStrip(s) ==
    IF s # <<>> /\ Head(s) \in Whitespace THEN LStrip(Tail(s)) ELSE s

RECURSIVE RStrip(_)
RStrip(s) ==
    IF s # <<>> /\ s[Len(s)] \in Whitespace
    THEN RStrip(SubSeq(s, 1, Len(s) - 1)) ELSE s

\* str.strip()
Strip(s) == RStrip(LStrip(s))

----------------------------------------------------------------------------
(* The emotion vocabulary: the keys of EMOTION_TO_VA as strings *)

happy == <<"h", "a", "p", "p", "y">>
sad == <<"s", "a", "d">>
angry == <<"a", "n", "g", "r", "y">>
fear == <<"f", "e", "a", "r">>
fearful == <<"f", "e", "a", "r", "f", "u", "l">>
surprise == <<"s", "u", "r", "p", "r", "i", "s", "e">>
surprised == <<"s", "u", "r", "p", "r", "i", "s", "e", "d">>
disgust == <<"d", "i", "s", "g", "u", "s", "t">>
neutral == <<"n", "e", "u", "t", "r", "a", "l">>
calm == <<"c", "a", "l", "m">>
anxious == <<"a", "n", "x", "i", "o", "u", "s">>
focused == <<"f", "o", "c", "u", "s", "e", "d">>
energized == <<"e", "n", "e", "r", "g", "i", "z", "e", "d">>
relaxed == <<"r", "e", "l", "a", "x", "e", "d">>
loving == <<"l", "o", "v", "i", "n", "g">>
melancholic == <<"m", "e", "l", "a", "n", "c", "h", "o", "l", "i", "c">>
somber == <<"s", "o", "m", "b", "e", "r">>
irritated == <<"i", "r", "r", "i", "t", "a", "t", "e", "d">>
tense == <<"t", "e", "n", "s", "e">>
uneasy == <<"u", "n", "e", "a", "s", "y">>
content == <<"c", "o", "n", "t", "e", "n", "t">>
serene == <<"s", "e", "r", "e", "n", "e">>
peaceful == <<"p", "e", "a", "c", "e", "f", "u", "l">>
hopeful == <<"h", "o", "p", "e", "f", "u", "l">>
cheerful == <<"c", "h", "e", "e", "r", "f", "u", "l">>

\* EMOTION_TO_VA, coordinates scaled by 100
EMOTION_TO_VA ==
    (happy :> <<80, 80>>)
    @@ (sad :> <<-70, -60>>)
    @@ (angry :> <<-60, 70>>)
    @@ (fear :> <<-40, 80>>)
    @@ (fearful :> <<-40, 80>>)
    @@ (surprise :> <<10, 90>>)
    @@ (surprised :> <<10, 90>>)
    @@ (disgust :> <<-70, 10>>)
    @@ (neutral :> <<0, 0>>)
    @@ (calm :> <<70, -70>>)
    @@ (anxious :> <<-30, 60>>)
    @@ (focused :> <<30, 20>>)
    @@ (energized :> <<60, 80>>)
    @@ (relaxed :> <<50, -60>>)
    @@ (loving :> <<70, 30>>)
    @@ (melancholic :> <<-50, -40>>)
    @@ (somber :> <<-35, -20>>)
    @@ (irritated :> <<-45, 50>>)
    @@ (tense :> <<-20, 40>>)
    @@ (uneasy :> <<-15, 30>>)
    @@ (content :> <<40, -30>>)
    @@ (serene :> <<60, -50>>)
    @@ (peaceful :> <<65, -60>>)
    @@ (hopeful :> <<30, 10>>)
    @@ (cheerful :> <<60, 50>>)

\* EMOTION_TRANSITIONS: adjacency lists in source order
EMOTION_TRANSITIONS ==
    (sad :> <<melancholic>>)
    @@ (melancholic :> <<somber>>)
    @@ (somber :> <<neutral, content>>)
    @@ (angry :> <<irritated>>)
    @@ (irritated :> <<tense>>)
    @@ (tense :> <<uneasy, anxious>>)
    @@ (fearful :> <<anxious>>)
    @@ (fear :> <<anxious>>)
    @@ (anxious :> <<uneasy>>)
    @@ (uneasy :> <<neutral, content>>)
    @@ (surprised :> <<hopeful>>)
    @@ (surprise :> <<hopeful>>)
    @@ (hopeful :> <<neutral, cheerful>>)
    @@ (neutral :> <<content, hopeful, focused>>)
    @@ (content :> <<serene, hopeful>>)
    @@ (serene :> <<peaceful>>)
    @@ (peaceful :> <<calm>>)
    @@ (calm :> <<relaxed, peaceful>>)
    @@ (relaxed :> <<calm, content>>)
    @@ (focused :> <<content, cheerful>>)
    @@ (cheerful :> <<happy, energized>>)
    @@ (energized :> <<happy, cheerful>>)
    @@ (happy :> <<energized, loving>>)
    @@ (loving :> <<happy, content>>)

\* an emotion name absent from both tables
xyz == <<"x", "y", "z">>

----------------------------------------------------------------------------
(* get_va_coordinates *)

\* Optional[str]: None, or a string
None == [isNone |-> TRUE, str |-> <<>>]
Str(s) == [isNone |-> FALSE, str |-> s]

\* (emotion or ""): None and the empty string are both falsy
OrEmpty(e) == IF e.isNone \/ e.str = <<>> THEN <<>> ELSE e.str

get_va_coordinates_nolower(e) ==
    LET key == Strip(OrEmpty(e))
    IN  IF key \notin DOMAIN EMOTION_TO_VA THEN EMOTION_TO_VA[neutral]
        ELSE EMOTION_TO_VA[key]

get_va_coordinates(e) ==
    LET key == Lower(Strip(OrEmpty(e)))
    IN  IF key \notin DOMAIN EMOTION_TO_VA THEN EMOTION_TO_VA[neutral]
        ELSE EMOTION_TO_VA[key]

\* start.lower().strip()
NormalizeName_nostrip(s) == Lower(s)

NormalizeName_nolower(s) == Strip(s)

NormalizeName(s) == Strip(Lower(s))

\* arguments of find_emotion_path: every table key, an unknown name, the
\* empty string, and names with capitals and surrounding whitespace
PathInputs ==
    DOMAIN EMOTION_TO_VA \cup
    { xyz, <<>>, <<" ", "\t">>,
      <<" ", "S", "a", "d">>,
      <<"H", "A", "P", "P", "Y">>,
      <<"C", "a", "l", "m", "\n">> }

\* get_va_coordinates(name) for every name the path synthesizers can pass:
\* the table keys and the normalized arguments.  The table is a constant,
\* evaluated once.
Coordinates ==
    [e \in DOMAIN EMOTION_TO_VA \cup {NormalizeName(x) : x \in PathInputs} |->
        get_va_coordinates(Str(e))] @@ <<>>

----------------------------------------------------------------------------
(* Nearest-emotion scans of the two path synthesizers.                     *)
(* A point between two emotions is kept as an integer pair together with   *)
(* the factor it is multiplied by, so that no division is needed: the      *)
(* midpoint <<(vs+vt)/2, (as+at)/2>> is <<vs+vt, as+at>> at factor 2, the  *)
(* k/3 point vs + k*(vt-vs)/3 is 3*vs + k*(vt-vs) at factor 3.             *)

MidPoint(s, t) ==
    LET ps == Coordinates[s]
        pt == Coordinates[t]
    IN  <<ps[1] + pt[1], ps[2] + pt[2]>>

ThirdPoint(s, t, k) ==
    LET ps == Coordinates[s]
        pt == Coordinates[t]
    IN  <<3 * ps[1] + k * (pt[1] - ps[1]), 3 * ps[2] + k * (pt[2] - ps[2])>>

\* abs(v - v_mid) + abs(a - a_mid), multiplied by factor
ManhattanDist(e, p, factor) ==
    LET c == Coordinates[e]
    IN  Abs(factor * c[1] - p[1]) + Abs(factor * c[2] - p[2])

\* (v - v_mid)**2 + (a - a_mid)**2, multiplied by factor^2; the square root
\* of line 217 is monotonic and is not taken
EuclidDistSq(e, p, factor) ==
    LET c == Coordinates[e]
        dv == factor * c[1] - p[1]
        da == factor * c[2] - p[2]
    IN  dv * dv + da * da

\* the emotions of least distance in a set of <<emotion, distance>> pairs
ArgMin(pairs) ==
    {q[1] : q \in {r \in pairs : \A r2 \in pairs : r[2] <= r2[2]}}

\* The scans "for emotion in EMOTION_TO_VA.keys(): if emotion not in
\* excluded: ... if dist < min_dist: min_dist = dist; best = emotion" keep an
\* emotion of least distance.  The code's distances are IEEE doubles: two
\* emotions whose exact distances are equal get doubles that differ in the
\* last bits, and the rounding, not the key order, decides which of them the
\* scan keeps.  A scan is therefore modelled by the set of emotions of least
\* exact distance, any of which it may end with; when every key is excluded
\* the initial "neutral" stays.  (The distances are tabulated once and the
\* table is bound by the quantifier.)
ScanManhattan(p, factor, excluded) ==
    IF DOMAIN EMOTION_TO_VA \ excluded = {} THEN {neutral}
    ELSE UNION { ArgMin(table) : table \in
                   { {<<e, ManhattanDist(e, p, factor)>> :
                        e \in DOMAIN EMOTION_TO_VA \ excluded} } }

ScanEuclid(p, factor, excluded) ==
    IF DOMAIN EMOTION_TO_VA \ excluded = {} THEN {neutral}
    ELSE UNION { ArgMin(table) : table \in
                   { {<<e, EuclidDistSq(e, p, factor)>> :
                        e \in DOMAIN EMOTION_TO_VA \ excluded} } }

\* _extend_short_path: the set of paths the call may return
extend_short_path_noexclude(path, tgt) ==
    IF Len(path) >= 3 THEN {path}
    ELSE {<<path[1], m, tgt>> : m \in ScanManhattan(MidPoint(path[1], tgt), 2, {})}

extend_short_path(path, tgt) ==
    IF Len(path) >= 3 THEN {path}
    ELSE {<<path[1], m, tgt>> :
            m \in ScanManhattan(MidPoint(path[1], tgt), 2, {path[1], tgt})}

\* _create_minimum_transition_path: the set of paths the call may return
create_minimum_transition_path_reuse(s, t) ==
    UNION { {<<s, i1, i2, t>> : i2 \in ScanEuclid(ThirdPoint(s, t, 2), 3, {s, t})}
            : i1 \in ScanEuclid(ThirdPoint(s, t, 1), 3, {s, t}) }

create_minimum_transition_path(s, t) ==
    UNION { {<<s, i1, i2, t>> : i2 \in ScanEuclid(ThirdPoint(s, t, 2), 3, {s, t, i1})}
            : i1 \in ScanEuclid(ThirdPoint(s, t, 1), 3, {s, t}) }

\* the scan of _extend_short_path (lines 175-185) and the scan of
\* _create_minimum_transition_path (lines 209-222) run on one fractional
\* point and one list of excluded emotions
ScanBoth ==
    /\ scan_pc = "call"
    /\ scan_result' =
          [extend |-> ScanManhattan(scan_args.point, scan_args.factor,
                                    scan_args.excluded),
           create |-> ScanEuclid(scan_args.point, scan_args.factor,
                                 scan_args.excluded)]
    /\ scan_pc' = "done"
    /\ UNCHANGED <<scan_args, pathVars, vaVars, corpusVars, queryVars,
                   playVars, transVars, session>>

----------------------------------------------------------------------------
(* find_emotion_path *)

\* EMOTION_TRANSITIONS.get(current, [])
Neighbours(current) ==
    IF current \in DOMAIN EMOTION_TRANSITIONS THEN EMOTION_TRANSITIONS[current]
    ELSE <<>>

\* the for loop of lines 129-138 over the neighbours of one dequeued emotion;
\* st is the record of visited, queue and found_paths
RECURSIVE ExpandNeighbours(_, _, _, _)
ExpandNeighbours(nexts, path, tgt, st) ==
    IF nexts = <<>> THEN st
    ELSE LET next_emotion == Head(nexts)
             new_path == Append(path, next_emotion)
             fresh == next_emotion \notin st.visited
         IN  ExpandNeighbours(Tail(nexts), path, tgt,
               [found_paths |-> IF next_emotion = tgt
                                THEN Append(st.found_paths, new_path)
                                ELSE st.found_paths,
                visited |-> IF fresh THEN st.visited \cup {next_emotion}
                            ELSE st.visited,
                queue |-> IF fresh THEN Append(st.queue, <<next_emotion, new_path>>)
                          ELSE st.queue])

\* [p for p in found_paths if len(p) >= 3]
LongEnoughPaths_all(found) == found

LongEnoughPaths(found) == SelectSeq(found, LAMBDA p : Len(p) >= 3)

\* min(paths, key=len): the first path of least length
MinByLen(paths) ==
    paths[CHOOSE i \in 1..Len(paths) :
            /\ \A j \in 1..Len(paths) : Len(paths[i]) <= Len(paths[j])
            /\ \A j \in 1..(i - 1) : Len(paths[j]) > Len(paths[i])]

\* lines 141-155: the set of paths the function may return once the queue
\* is empty
SelectPath_nofallback(found, s, t) ==
    IF found # <<>>
    THEN IF LongEnoughPaths(found) # <<>>
         THEN {MinByLen(LongEnoughPaths(found))}
         ELSE extend_short_path(MinByLen(found), t)
    ELSE {<<>>}

SelectPath(found, s, t) ==
    IF found # <<>>
    THEN IF LongEnoughPaths(found) # <<>>
         THEN {MinByLen(LongEnoughPaths(found))}
         ELSE extend_short_path(MinByLen(found), t)
    ELSE create_minimum_transition_path(s, t)

\* "while queue:" is left when the deque is empty
QueueExhausted(q) == q = <<>>

\* lines 112-120: normalize, return [start] when equal, else set up the BFS
Enter ==
    /\ pc = "call"
    /\ LET s == NormalizeName(start_in)
           t == NormalizeName(target_in)
       IN  /\ start' = s
           /\ target' = t
           /\ IF s = t
              THEN /\ pc' = "done"
                   /\ result' = <<s>>
                   /\ UNCHANGED <<queue, visited, found_paths>>
              ELSE /\ pc' = "loop"
                   /\ queue' = << <<s, <<s>> >> >>
                   /\ visited' = {s}
                   /\ found_paths' = <<>>
                   /\ UNCHANGED result
    /\ UNCHANGED <<start_in, target_in, vaVars, corpusVars, queryVars, playVars,
                   transVars, scanVars, session>>

\* one iteration of the while loop, lines 125-138
LoopIter ==
    /\ pc = "loop"
    /\ ~QueueExhausted(queue)
    /\ LET current == Head(queue)[1]
           path == Head(queue)[2]
           st == ExpandNeighbours(Neighbours(current), path, target,
                    [found_paths |-> found_paths, visited |-> visited,
                     queue |-> Tail(queue)])
       IN  /\ found_paths' = st.found_paths
           /\ visited' = st.visited
           /\ queue' = st.queue
    /\ UNCHANGED <<start_in, target_in, pc, start, target, result, vaVars, corpusVars,
                   queryVars, playVars,
                   transVars, scanVars, session>>

\* lines 140-155, after the loop
Finish ==
    /\ pc = "loop"
    /\ QueueExhausted(queue)
    /\ \E r \in SelectPath(found_paths, start, target) : result' = r
    /\ pc' = "done"
    /\ UNCHANGED <<start_in, target_in, start, target, queue, visited, found_paths,
                   vaVars, corpusVars, queryVars, playVars,
                   transVars, scanVars, session>>

\* find_emotion_path run to its end: the while loop of lines 125-138
RECURSIVE BreadthFirst(_, _)
BreadthFirst(st, tgt) ==
    IF QueueExhausted(st.queue) THEN st.found_paths
    ELSE BreadthFirst(ExpandNeighbours(Neighbours(Head(st.queue)[1]),
                                       Head(st.queue)[2], tgt,
                                       [st EXCEPT !.queue = Tail(@)]), tgt)

\* the set of paths a call of find_emotion_path may return
find_emotion_path(start_emotion, target_emotion) ==
    LET s == NormalizeName(start_emotion)
        t == NormalizeName(target_emotion)
    IN  IF s = t THEN {<<s>>}
        ELSE SelectPath(BreadthFirst([found_paths |-> <<>>, visited |-> {s},
                                      queue |-> << <<s, <<s>> >> >>], t), s, t)

----------------------------------------------------------------------------
(* music_engine.py: the corpus frame *)

\* rationals <<numerator, denominator>>, denominator > 0
RLe(a, b) == a[1] * b[2] <= b[1] * a[2]
REq(a, b) == a[1] * b[2] = b[1] * a[2]
RSub(a, b) == <<a[1] * b[2] - b[1] * a[2], a[2] * b[2]>>
RMul(a, b) == <<a[1] * b[1], a[2] * b[2]>>
\* a / b for b > 0
RDiv(a, b) == <<a[1] * b[2], a[2] * b[1]>>

\* the same operations with the result in lowest terms
RECURSIVE GCD(_, _)
GCD(a, b) == IF b = 0 THEN a ELSE GCD(b, a % b)
Reduced(r) ==
    LET g == GCD(Abs(r[1]), r[2])
    IN  <<r[1] \div g, r[2] \div g>>
RPlus(a, b) ==
    LET g == GCD(a[2], b[2])
    IN  Reduced(<<a[1] * (b[2] \div g) + b[1] * (a[2] \div g), (a[2] \div g) * b[2]>>)
RMinus(a, b) == RPlus(a, <<-b[1], b[2]>>)
RTimes(a, b) ==
    LET g == GCD(Abs(a[1]), b[2])
        h == GCD(Abs(b[1]), a[2])
    IN  Reduced(<<(a[1] \div g) * (b[1] \div h), (a[2] \div h) * (b[2] \div g)>>)
\* a <= b for rationals in lowest terms
RLeq(a, b) == RMinus(a, b)[1] <= 0
\* a / b for b > 0
ROver(a, b) == RTimes(a, <<b[2], b[1]>>)

\* a cell of the csv: a number, a text that is no number, or an empty cell
Num(tenths) == [kind |-> "num", val |-> <<tenths, 10>>]
Text == [kind |-> "text", val |-> <<0, 1>>]
NaN == [kind |-> "nan", val |-> <<0, 1>>]
MissingId == "nan"

\* pd.to_numeric(cell, errors="coerce")
ToNumeric(cell) == IF cell.kind = "num" THEN cell ELSE NaN

\* min and max of a series of numbers (the series is not empty)
SeriesMin(series) ==
    series[CHOOSE i \in 1..Len(series) : \A j \in 1..Len(series) :
              RLe(series[i].val, series[j].val)].val
SeriesMax(series) ==
    series[CHOOSE i \in 1..Len(series) : \A j \in 1..Len(series) :
              RLe(series[j].val, series[i].val)].val

\* _normalize_series_to_minus1_1; the series holds no NaN when it is called
\* (line 82 dropped them), so mn and mx are NaN only for the empty series
normalize_series_to_minus1_1(series) ==
    IF series = <<>> THEN series
    ELSE LET mn == SeriesMin(series)
             mx == SeriesMax(series)
         IN  IF REq(mx, mn) THEN series
             ELSE IF RLe(<<-12, 10>>, mn) /\ RLe(mx, <<12, 10>>) THEN series
             ELSE IF /\ RLe(<<0, 1>>, mn) /\ RLe(mn, <<1, 1>>)
                     /\ RLe(<<0, 1>>, mx) /\ RLe(mx, <<1, 1>>)
                  THEN [i \in 1..Len(series) |->
                          [kind |-> "num",
                           val |-> RSub(RMul(series[i].val, <<2, 1>>), <<1, 1>>)]]
             ELSE [i \in 1..Len(series) |->
                     [kind |-> "num",
                      val |-> RSub(RMul(<<2, 1>>,
                                        RDiv(RSub(series[i].val, mn), RSub(mx, mn))),
                                   <<1, 1>>)]]

\* df.dropna(subset=["spotify_id", "valence", "arousal"])
DropNa(rows) ==
    SelectSeq(rows, LAMBDA r : /\ r.spotify_id # MissingId
                               /\ r.valence.kind = "num"
                               /\ r.arousal.kind = "num")

\* a load that skips the drop_duplicates of line 91
DropDuplicates_keepall(rows) == rows

\* df.drop_duplicates(subset=["spotify_id"]): the first row of each id stays
DropDuplicates(rows) ==
    LET keep == {i \in 1..Len(rows) :
                   \A j \in 1..(i - 1) : rows[j].spotify_id # rows[i].spotify_id}
        F[i \in 0..Len(rows)] ==
            IF i = 0 THEN <<>>
            ELSE IF i \in keep THEN Append(F[i - 1], rows[i]) ELSE F[i - 1]
    IN  F[Len(rows)]

\* preprocess_data for a frame that has the spotify_id, valence and arousal
\* columns (lines 55-71 only rename columns)
preprocess_data(frame) ==
    IF frame = <<>> THEN frame
    ELSE LET numeric == [i \in 1..Len(frame) |->
                           [frame[i] EXCEPT !.valence = ToNumeric(@),
                                            !.arousal = ToNumeric(@)]]
             kept == DropNa(numeric)
             v == normalize_series_to_minus1_1([i \in 1..Len(kept) |-> kept[i].valence])
             a == normalize_series_to_minus1_1([i \in 1..Len(kept) |-> kept[i].arousal])
             normalized == [i \in 1..Len(kept) |->
                              [kept[i] EXCEPT !.valence = v[i], !.arousal = a[i]]]
         IN  DropDuplicates(normalized)

\* MusicEngine.__init__: self.df = preprocess_data(raw)
MusicEngineInit ==
    /\ df_pc = "raw"
    /\ df' = preprocess_data(raw)
    /\ df_pc' = "loaded"
    /\ UNCHANGED <<raw, columns, pathVars, vaVars, queryVars, playVars,
                   transVars, scanVars, session>>

\* the columns MusicEngine.is_ready asks for (line 104)
AllColumns == {"track", "artist", "valence", "arousal", "spotify_id"}

\* a readiness test that looks at no column
is_ready_nocolumns == df # <<>>

\* MusicEngine.is_ready
is_ready == df # <<>> /\ AllColumns \subseteq columns

\* Optional[set]: None, or a set of ids
NoIds == [isNone |-> TRUE, ids |-> {}]
IdSet(S) == [isNone |-> FALSE, ids |-> S]
\* the truth value Python gives it: None and the empty set are false
Truthy(e) == ~e.isNone /\ e.ids # {}

Min(a, b) == IF a <= b THEN a ELSE b
Max(a, b) == IF a >= b THEN a ELSE b

\* a mask with exclusive limits
InVaRange_exclusive(r, q) ==
    /\ r.valence.kind = "num" /\ r.arousal.kind = "num"
    /\ ~RLe(r.valence.val, q.v_min) /\ ~RLe(q.v_max, r.valence.val)
    /\ ~RLe(r.arousal.val, q.a_min) /\ ~RLe(q.a_max, r.arousal.val)

\* the mask of lines 119-124; a comparison with NaN is false
InVaRange(r, q) ==
    /\ r.valence.kind = "num" /\ r.arousal.kind = "num"
    /\ RLe(q.v_min, r.valence.val) /\ RLe(r.valence.val, q.v_max)
    /\ RLe(q.a_min, r.arousal.val) /\ RLe(r.arousal.val, q.a_max)

\* DataFrame.sample(n=count): count rows drawn without replacement, in the
\* order drawn; which ones is the generator's choice, whatever random_state
\* seeds it with
Sample(rows, count) ==
    {[k \in 1..count |-> rows[f[k]]] :
        f \in {g \in [1..count -> 1..Len(rows)] :
                 \A i, j \in 1..count : i # j => g[i] # g[j]}}

\* MusicEngine.get_songs_in_va_range; num_songs is not negative
GetSongsInVaRange ==
    /\ q_pc = "call"
    /\ IF df = <<>> \/ ~({"valence", "arousal"} \subseteq columns)
       THEN songs' = <<>>
       ELSE LET inrange == SelectSeq(df, LAMBDA r : InVaRange(r, query))
                subset == IF /\ Truthy(query.exclude_spotify_ids)
                             /\ inrange # <<>>
                             /\ "spotify_id" \in columns
                          THEN SelectSeq(inrange, LAMBDA r :
                                   r.spotify_id \notin query.exclude_spotify_ids.ids)
                          ELSE inrange
            IN  IF subset = <<>> THEN songs' = <<>>
                ELSE songs' \in Sample(subset, Min(query.num_songs, Len(subset)))
    /\ q_pc' = "done"
    /\ UNCHANGED <<query, pathVars, vaVars, corpusVars, playVars,
                   transVars, scanVars, session>>

\* a call of get_va_coordinates
GetVA ==
    /\ va_pc = "call"
    /\ va_result' = get_va_coordinates(emotion)
    /\ va_pc' = "done"
    /\ UNCHANGED <<emotion, pathVars, corpusVars, queryVars, playVars,
                   transVars, scanVars, session>>

----------------------------------------------------------------------------
(* AdvancedMusicRecommender._gradient_based_transition *)

\* line 339, for u = -2 * t + 2
ease_out(u) == RMinus(<<1, 1>>, ROver(RTimes(u, RTimes(u, u)), <<2, 1>>))

\* an easing that is the identity
ease_linear(t) == t

\* lines 335-339: the cubic easing of the rational t
ease(t) ==
    IF 2 * t[1] < t[2]
    THEN RTimes(<<4, 1>>, RTimes(t, RTimes(t, t)))
    ELSE ease_out(RPlus(RTimes(<<-2, 1>>, t), <<2, 1>>))

\* _gradient_based_transition: the list of interpolated feature vectors;
\* a feature vector is a tuple of rationals
gradient_based_transition(start_features, end_features, num_steps) ==
    [k \in 1..num_steps |->
        LET i == k - 1
            t == Reduced(<<i, Max(1, num_steps - 1)>>)
            eased_t == ease(t)
        IN  [f \in DOMAIN start_features |->
                RPlus(start_features[f],
                      RTimes(RMinus(end_features[f], start_features[f]), eased_t))]]

\* a call of _gradient_based_transition
GradientBasedTransition ==
    /\ tr_pc = "call"
    /\ transitions' = gradient_based_transition(tr_args.start_features,
                          tr_args.end_features, tr_args.num_steps)
    /\ tr_pc' = "done"
    /\ UNCHANGED <<tr_args, pathVars, vaVars, corpusVars, queryVars, playVars,
                   scanVars, session>>

----------------------------------------------------------------------------
(* AdvancedMusicRecommender.generate_playlist *)

\* numpy's global generator is a state that np.random.seed sets and every
\* draw reads and advances.  RngStates states stand for it: seeding with s
\* puts it in state s % RngStates, a draw moves it to the next state.
RngStates == 3

\* Optional[int]: None, or a seed
NoSeed == [isNone |-> TRUE, seed |-> 0]
Seed(n) == [isNone |-> FALSE, seed |-> n]

\* a call that does not seed the generator
Seeded_ignored(random_state, rng) == rng

\* lines 355-356: the generator after "if random_state is not None:
\* np.random.seed(random_state)"
Seeded(random_state, rng) ==
    IF random_state.isNone THEN rng ELSE random_state.seed % RngStates

\* np.random.choice(n, p=probabilities): every weight is positive
\* (exp of a score), so each of the n candidates can be drawn; which one is
\* a function of the generator's state.  The index is 1-based here.
Choice(rng, n) == (rng % n) + 1
Advance(rng) == (rng + 1) % RngStates

\* a comparison that never finds the two emotions equal
SameEmotion_never(s, t) == FALSE

\* line 363
SameEmotion(s, t) == s = t

\* the feature vector of an emotion, lines 381-393: its coordinates
Features(e) ==
    LET c == IF e \in DOMAIN Coordinates THEN Coordinates[e]
             ELSE get_va_coordinates(Str(e))
    IN  <<Reduced(<<c[1], 100>>), Reduced(<<c[2], 100>>)>>

\* the feature columns of the corpus, lines 252-277: valence and arousal
FeatureOf(r) == <<Reduced(r.valence.val), Reduced(r.arousal.val)>>

RECURSIVE RSum(_)
RSum(xs) ==
    IF xs = <<>> THEN <<0, 1>>
    ELSE IF Len(xs) = 1 THEN Reduced(xs[1])
    ELSE RPlus(RSum(SubSeq(xs, 1, Len(xs) \div 2)),
               RSum(SubSeq(xs, Len(xs) \div 2 + 1, Len(xs))))

\* StandardScaler.fit, line 277: the variance of feature f over the corpus
\* and the square of the scale the scaler divides by, which is 1 for a
\* feature of no variance
Variance(f) ==
    LET col == [i \in 1..Len(df) |-> FeatureOf(df[i])[f]]
        n == <<Len(df), 1>>
        mean == ROver(RSum(col), n)
    IN  RMinus(ROver(RSum([i \in 1..Len(df) |-> RTimes(col[i], col[i])]), n),
               RTimes(mean, mean))
OneIfZero(v) == IF v[1] = 0 THEN <<1, 1>> ELSE v
ScaleSq(f) == OneIfZero(Variance(f))

\* The scaler maps a feature x to (x - mean) / scale.  Transition points
\* are interpolated between the scaled points of two emotions (lines
\* 401-407), which are the scaled images of the points interpolated between
\* the emotions themselves; a transition point is kept here as that
\* unscaled point.  The square of the euclidean distance in the scaled
\* space between a row and a transition point (lines 281-286):
ScaledDistSq(r, target_point, scale_sq) ==
    RSum([f \in 1..2 |->
            ROver(RTimes(RMinus(FeatureOf(r)[f], target_point[f]),
                         RMinus(FeatureOf(r)[f], target_point[f])),
                  scale_sq[f])])

\* _initialize_models, lines 243-289: the scaler fitted to the corpus
fit_scaler == <<ScaleSq(1), ScaleSq(2)>>

\* the rows of the frame by their distances d, nearest first (rows at one
\* distance in the order of the frame), at most 50 of them
NearestFirst(d) ==
    LET rank == [i \in 1..Len(df) |->
                    Cardinality({j \in 1..Len(df) :
                        \/ ~RLeq(d[i], d[j])
                        \/ d[i] = d[j] /\ j < i})] @@ <<>>
    IN  [k \in 1..Min(50, Len(df)) |->
            df[CHOOSE i \in 1..Len(df) : rank[i] = k - 1]]

\* neighbours taken in the order of the frame, whatever their distance
kneighbors_unordered(target_point, scale_sq) == SubSeq(df, 1, Min(50, Len(df)))

\* kneighbors(n_neighbors=min(50, len(df))), lines 412-415: the rows nearest
\* to the transition point, nearest first
kneighbors(target_point, scale_sq) ==
    NearestFirst([i \in 1..Len(df) |->
                    ScaledDistSq(df[i], target_point, scale_sq)] @@ <<>>)

\* _compute_song_score, lines 301-319: the score of a candidate is
\* -sqrt(dist_sq) + diversity_bonus; the bonus is diversity_weight once
\* used_ids is not empty, whatever the candidate
diversity_weight == <<3, 10>>
compute_song_score(song, target_point, scale_sq, used_ids) ==
    [dist_sq |-> ScaledDistSq(song, target_point, scale_sq),
     diversity_bonus |-> IF used_ids # {} THEN diversity_weight ELSE <<0, 1>>]

\* scores.min(), line 441.  The scores of one transition point carry one
\* and the same bonus (lines 314-317 look at used_ids alone), so that the
\* least of them is the score of the greatest distance
MinScore(scores) ==
    scores[CHOOSE m \in 1..Len(scores) :
              \A i \in 1..Len(scores) : RLeq(scores[i].dist_sq, scores[m].dist_sq)]

\* lines 439-443: the selection weights.  The weight of candidate i is
\* exp(x_i) / sum_j exp(x_j) with the exponent
\* x_i = scores[i] - scores.min() + 0.1
\*     = -sqrt(dist_sq) + sqrt(min_dist_sq) + shift,
\* and the weights are kept as their exponents: the least exponent is 0.1,
\* so that two lists of weights are equal exactly when their exponents are
Probabilities(scores) ==
    LET least == MinScore(scores)
    IN  [i \in 1..Len(scores) |->
            [dist_sq |-> scores[i].dist_sq,
             min_dist_sq |-> least.dist_sq,
             shift |-> RPlus(RMinus(scores[i].diversity_bonus,
                                    least.diversity_bonus), <<1, 10>>)]]

\* a candidate list that keeps used songs
Unused_all(rows, used_ids) == rows

\* lines 421-426: the neighbours whose id is not in used_ids
Unused(rows, used_ids) == SelectSeq(rows, LAMBDA r : r.spotify_id \notin used_ids)

\* the state of one call: its arguments, its locals, its result, and a
\* record of the transition points it made per segment, of the points that
\* found no candidate, of the generator's state when it was entered, of the
\* transition point each song was selected at, and of the transition points
\* skipped with the ids used by then; scaler is the fitted scaler of the
\* recommender the call builds, probabilities the weights of the last
\* selection
NewCall(start_emotion, target_emotion, num_steps, random_state) ==
    [pc |-> "idle",
     start_emotion |-> start_emotion, target_emotion |-> target_emotion,
     num_steps |-> num_steps, random_state |-> random_state,
     emotion_path |-> <<>>, path_idx |-> 0, songs_for_transition |-> 0,
     point |-> 0, selected_songs |-> <<>>, used_ids |-> {},
     playlist |-> <<>>,
     transition_points |-> <<>>, skipped |-> 0, entered_at |-> 0,
     matched_at |-> <<>>, skipped_at |-> <<>>, scaler |-> <<>>,
     probabilities |-> <<>>]

\* lines 458-465: the frame returned, rows renumbered by reset_index
Returned(selected_songs) ==
    [k \in 1..Len(selected_songs) |-> [selected_songs[k] EXCEPT !.index = k]]

\* lines 351-374, with the path that find_emotion_path returned: the call
\* and the generator after them
CallOf(a, rng, path) ==
    IF ~is_ready
    THEN [call |-> [a EXCEPT !.pc = "done", !.entered_at = rng], rng |-> rng]
    ELSE IF SameEmotion(NormalizeName(a.start_emotion), NormalizeName(a.target_emotion))
    THEN [call |-> [a EXCEPT !.pc = "done", !.entered_at = rng,
                             !.scaler = fit_scaler],
          rng |-> Seeded(a.random_state, rng)]
    ELSE [call |-> [a EXCEPT !.pc = "segment", !.entered_at = rng,
                             !.scaler = fit_scaler,
                             !.emotion_path =
                                 IF Len(path) < 2
                                 THEN <<NormalizeName(a.start_emotion),
                                        NormalizeName(a.target_emotion)>>
                                 ELSE path],
          rng |-> Seeded(a.random_state, rng)]

\* a last transition that is never recognized
LastTransition_never(a) == FALSE

\* line 387; path_idx counts from 0
LastTransition(a) == a.path_idx = Len(a.emotion_path) - 2

\* a share rounded up
PerTransition_ceil(a) ==
    (a.num_steps + Max(1, Len(a.emotion_path) - 1) - 1)
        \div Max(1, Len(a.emotion_path) - 1)

\* line 386
PerTransition(a) == a.num_steps \div Max(1, Len(a.emotion_path) - 1)

\* lines 377-407: the head of the loop over the path
SegmentStartOf(a) ==
    LET songs_for_transition ==
            IF LastTransition(a) THEN a.num_steps - Len(a.selected_songs)
            ELSE PerTransition(a)
    IN  [a EXCEPT !.pc = "waypoint",
                  !.songs_for_transition = songs_for_transition,
                  !.point = 0,
                  !.transition_points = Append(@, Max(0, songs_for_transition))]

\* "for target_point in transition_points" has a next point; the list has
\* range(songs_for_transition) points (line 337)
MorePoints(a) == a.pc = "waypoint" /\ a.point < a.songs_for_transition

\* lines 452 and 455
Reached(a) == Len(a.selected_songs) >= a.num_steps

\* lines 377-407 and 410: the transition point the loop stands at, among
\* those of the current segment of the path
TargetPoint(a) ==
    gradient_based_transition(Features(a.emotion_path[a.path_idx + 1]),
                              Features(a.emotion_path[a.path_idx + 2]),
                              a.songs_for_transition)[a.point + 1]

\* lines 410-450: the selection at one transition point
\* lines 437-450: a song is drawn from the candidates, if there are any
PickAmong(a, rng, target_point, candidates) ==
    IF candidates # <<>>
    THEN LET best_song == candidates[Choice(rng, Len(candidates))]
         IN  [call |-> [a EXCEPT !.probabilities =
                                     Probabilities([i \in 1..Len(candidates) |->
                                         compute_song_score(candidates[i], target_point,
                                                            a.scaler, a.used_ids)]),
                                 !.selected_songs = Append(@, best_song),
                                 !.used_ids = @ \cup {best_song.spotify_id},
                                 !.matched_at = Append(@, target_point)],
              rng |-> Advance(rng)]
    ELSE [call |-> [a EXCEPT !.skipped = @ + 1,
                             !.skipped_at = Append(@, [target_point |-> target_point,
                                                      used_ids |-> a.used_ids])],
          rng |-> rng]

\* lines 411-435: the candidates of a transition point
PickAt(a, rng, target_point) ==
    PickAmong(a, rng, target_point,
              Unused(kneighbors(target_point, a.scaler), a.used_ids))

Pick(a, rng) == PickAt(a, rng, TargetPoint(a))

\* lines 452-453: the loop over the points ends once num_steps songs are
\* selected
NextPoint(p) ==
    [call |-> IF Reached(p.call) THEN [p.call EXCEPT !.pc = "end"]
              ELSE [p.call EXCEPT !.point = @ + 1],
     rng |-> p.rng]

\* a loop body that neither breaks nor moves to the next point
SelectSongOf_nocount(a, rng) == Pick(a, rng)

\* lines 410-453: the body of the loop over the transition points
SelectSongOf(a, rng) == NextPoint(Pick(a, rng))

\* lines 455-465: the foot of the loop over the path, and the return
SegmentEndOf(a) ==
    IF Reached(a) \/ a.path_idx + 1 > Len(a.emotion_path) - 2
    THEN [a EXCEPT !.pc = "done", !.playlist = Returned(a.selected_songs)]
    ELSE [a EXCEPT !.pc = "segment", !.path_idx = @ + 1]

\* the callers: in a specification where calls follow one another a caller
\* steps only while no other call is under way
Calls == {1, 2}
Running(c) == calls[c].pc \in {"segment", "waypoint", "end"}

\* generate_playlist is entered: a new recommender is built over the engine
\* (lines 468-478, 232-289), then lines 351-374
Call(c) ==
    /\ calls[c].pc = "idle"
    /\ \E path \in find_emotion_path(calls[c].start_emotion, calls[c].target_emotion) :
          \E r \in {CallOf(calls[c], np_random, path)} :
              /\ calls' = [calls EXCEPT ![c] = r.call]
              /\ np_random' = r.rng
    /\ UNCHANGED <<pathVars, vaVars, corpusVars, queryVars,
                   transVars, scanVars, session>>

SegmentStart(c) ==
    /\ calls[c].pc = "segment"
    /\ calls' = [calls EXCEPT ![c] = SegmentStartOf(@)]
    /\ UNCHANGED <<np_random, pathVars, vaVars, corpusVars, queryVars,
                   transVars, scanVars, session>>

SelectSong(c) ==
    /\ MorePoints(calls[c])
    /\ \E r \in {SelectSongOf(calls[c], np_random)} :
          /\ calls' = [calls EXCEPT ![c] = r.call]
          /\ np_random' = r.rng
    /\ UNCHANGED <<pathVars, vaVars, corpusVars, queryVars,
                   transVars, scanVars, session>>

SegmentEnd(c) ==
    /\ \/ calls[c].pc = "end"
       \/ calls[c].pc = "waypoint" /\ ~MorePoints(calls[c])
    /\ calls' = [calls EXCEPT ![c] = SegmentEndOf(@)]
    /\ UNCHANGED <<np_random, pathVars, vaVars, corpusVars, queryVars,
                   transVars, scanVars, session>>

----------------------------------------------------------------------------
(* recommendation_logic.generate_playlist, the function app.py calls *)

\* one step of the loops of lines 377-465, on a call and the generator
StepOf(r) ==
    IF r.call.pc = "segment"
    THEN [call |-> SegmentStartOf(r.call), rng |-> r.rng]
    ELSE IF MorePoints(r.call) THEN SelectSongOf(r.call, r.rng)
    ELSE [call |-> SegmentEndOf(r.call), rng |-> r.rng]

\* a call of the recommender's generate_playlist run from its entry to its
\* return, with the state the generator is left in
RECURSIVE RunToReturn(_)
RunToReturn(r) ==
    IF r.call.pc \in {"segment", "waypoint", "end"} THEN RunToReturn(StepOf(r))
    ELSE r

\* the frame returned as the ids of its tracks, in order
PlaylistOf(return) ==
    [playlist |-> [k \in 1..Len(return.call.playlist) |->
                      return.call.playlist[k].spotify_id],
     rng |-> return.rng]

\* lines 468-478: a recommender is built over the engine and asked for the
\* playlist.  The outcomes, one for each path find_emotion_path may return:
\* the ids of the tracks of the frame returned and the generator's state
generate_playlist(start_emotion, target_emotion, num_steps, random_state, rng) ==
    { PlaylistOf(RunToReturn(CallOf(NewCall(start_emotion, target_emotion,
                                            num_steps, random_state), rng, path)))
      : path \in find_emotion_path(start_emotion, target_emotion) }

----------------------------------------------------------------------------
(* app.py: the session of render_new_session.                              *)
(* The user acts on a widget of the page shown, and streamlit runs the     *)
(* script from the top with that widget reporting it; a run that calls     *)
(* st.rerun() ends there and the script is run again.  session holds       *)
(* st.session_state, the profile's target mood, the interaction the next   *)
(* run reports, the page the last run left on the screen, and a record of  *)
(* the journey for the properties below.                                   *)

MOOD_OPTIONS ==
    {happy, sad, angry, fearful, surprised, loving, energized, anxious, calm, focused}

TARGET_MOODS == {calm, happy, focused, energized, relaxed}

\* a value that is neither None nor the empty string
IsSet(value) == ~value.isNone /\ value.str # <<>>

\* lines 93-99
normalize_emotion(value) ==
    IF ~IsSet(value) THEN None
    ELSE LET normalized == Lower(Strip(value.str))
         IN  IF normalized \notin MOOD_OPTIONS THEN Str(neutral) ELSE Str(normalized)

\* Counter(history).most_common(1)[0][0]: the emotion of the greatest count,
\* the one met first among those of one count
CountIn(history, e) == Cardinality({i \in 1..Len(history) : history[i] = e})
MostCommon(history) ==
    history[CHOOSE i \in 1..Len(history) :
               /\ \A j \in 1..Len(history) :
                     CountIn(history, history[j]) <= CountIn(history, history[i])
               /\ \A j \in 1..(i - 1) :
                     CountIn(history, history[j]) < CountIn(history, history[i])]

\* history[-n:]
LastOf(history, n) ==
    SubSeq(history, Max(1, Len(history) - n + 1), Len(history))

\* a key of st.session_state that is not set
NoPath == [present |-> FALSE, path |-> <<>>]
NoPlaylist == [present |-> FALSE, songs |-> <<>>]
StoredPath(p) == [present |-> TRUE, path |-> p]
StoredPlaylist(ids) == [present |-> TRUE, songs |-> ids]

\* the interactions: the widget acted on and what it delivers
Event(name) == [name |-> name, mood |-> None, seed |-> 0]
NoEvent == Event("none")
\* no run of the script is due; a run is due to st.rerun()
Idle == Event("idle")
Rerun == Event("rerun")
MoodEvent(name, mood) == [name |-> name, mood |-> mood, seed |-> 0]
FeedbackEvent(feedback, seed) == [name |-> feedback, mood |-> None, seed |-> seed]

\* set_active_profile, lines 641-655, after ensure_session_defaults, lines
\* 555-568: the session of a profile just selected
NewSession(target_mood) ==
    [target_mood |-> target_mood,
     mode |-> "none", camera |-> "snapshot",
     detected_mood |-> None, last_detected_emotion |-> None,
     emotion_history |-> <<>>,
     emotion_path |-> NoPath, original_detected_mood |-> None,
     current_playlist |-> NoPlaylist,
     current_from |-> None, current_to |-> None,
     current_transition_step |-> 0,
     screen |-> "detect",
     \* the interaction the next run of the script reports
     pending |-> Event("select"),
     \* the record of the journey
     last_event |-> "select", path_computed |-> FALSE, recomputed |-> FALSE,
     journey_path |-> <<>>, only_happy |-> FALSE, happy_count |-> 0]

\* the block "Clear journey tracking for fresh start", lines 1050-1054
ClearJourney(s) ==
    [s EXCEPT !.emotion_path = NoPath, !.current_playlist = NoPlaylist,
              !.current_from = None, !.current_to = None,
              !.current_transition_step = 0]

\* an outcome of a run, or of a part of one: the session, the generator and
\* whether the run ended in st.rerun()
Outcome(s, rng, rerun) == [s |-> s, rng |-> rng, rerun |-> rerun]

\* lines 1045-1067: "Start with Webcam" and "Start with Manual Input"
StartButtons(s, ev) ==
    IF ev.name = "start_webcam"
    THEN ClearJourney([s EXCEPT !.mode = "webcam", !.detected_mood = None,
                                !.last_detected_emotion = None])
    ELSE IF ev.name = "start_manual"
    THEN ClearJourney([s EXCEPT !.mode = "manual", !.detected_mood = None,
                                !.last_detected_emotion = None])
    ELSE s

\* lines 1071-1079: the manual mood and "Get Recommendation"
ManualSection(s, ev) ==
    IF ev.name = "get_recommendation" THEN [s EXCEPT !.detected_mood = ev.mood]
    ELSE s

\* lines 1193-1217, the stream playing: the emotions the callback queued
\* join the history, and a new majority among the last five is stored and
\* the script run again
StreamPlaying(s, rng, ev) ==
    LET emotions_batch == IF ev.name = "frames" THEN <<ev.mood.str>> ELSE <<>>
        history == IF emotions_batch # <<>>
                   THEN LastOf(s.emotion_history \o emotions_batch, 10)
                   ELSE s.emotion_history
        s1 == [s EXCEPT !.emotion_history = history]
    IN  IF Len(history) >= 2
           /\ s1.last_detected_emotion # Str(MostCommon(LastOf(history, 5)))
        THEN Outcome([s1 EXCEPT !.last_detected_emotion =
                                    Str(MostCommon(LastOf(history, 5)))],
                     rng, TRUE)
        ELSE Outcome(s1, rng, FALSE)

\* lines 1224-1232, the stream stopped: the majority of the history is
\* the final emotion
StreamStopped(s) ==
    IF s.emotion_history # <<>>
       /\ s.last_detected_emotion # Str(MostCommon(s.emotion_history))
    THEN [s EXCEPT !.last_detected_emotion = Str(MostCommon(s.emotion_history)),
                   !.detected_mood = Str(MostCommon(s.emotion_history))]
    ELSE s

\* lines 1267-1298: a snapshot is analyzed
SnapshotTaken(s, ev) ==
    IF ev.name = "snapshot" /\ IsSet(normalize_emotion(ev.mood))
    THEN [s EXCEPT !.last_detected_emotion = normalize_emotion(ev.mood)]
    ELSE s

\* lines 1301-1346: "Clear Detection", the mood locked in when none is, and
\* "Use This Mood".  last is read once, before the buttons
LockIn(s, ev) ==
    LET last == s.last_detected_emotion
        s1 == IF IsSet(last) /\ ev.name = "clear_detection"
              THEN [s EXCEPT !.last_detected_emotion = None,
                             !.emotion_history = <<>>,
                             !.detected_mood = None]
              ELSE s
        normalized_last == normalize_emotion(last)
        s2 == IF IsSet(normalized_last) /\ normalized_last # last
              THEN [s1 EXCEPT !.last_detected_emotion = normalized_last]
              ELSE s1
        s3 == IF IsSet(normalized_last) /\ ~IsSet(s2.detected_mood)
              THEN [s2 EXCEPT !.detected_mood = normalized_last]
              ELSE s2
    IN  IF ev.name = "use_this_mood" /\ IsSet(normalized_last)
        THEN ClearJourney([s3 EXCEPT !.detected_mood = normalized_last])
        ELSE s3

\* st.rerun() at line 1217 ends the run; otherwise the script goes on
AfterStream(o, ev) ==
    IF o.rerun THEN o ELSE Outcome(LockIn(o.s, ev), o.rng, FALSE)

\* lines 1080-1346: the webcam section, with the detection method and the
\* stream as the user left them
WebcamSection(s, rng, ev) ==
    LET s1 == [s EXCEPT !.camera =
                   IF ev.name = "use_snapshot" THEN "snapshot"
                   ELSE IF ev.name = "play" THEN "playing"
                   ELSE IF ev.name \in {"use_realtime", "stop"} THEN "stopped"
                   ELSE @]
    IN  IF s1.camera = "playing"
        THEN AfterStream(StreamPlaying(s1, rng, ev), ev)
        ELSE IF s1.camera = "stopped"
        THEN Outcome(LockIn(StreamStopped(s1), ev), rng, FALSE)
        ELSE Outcome(LockIn(SnapshotTaken(s1, ev), ev), rng, FALSE)

\* line 1354
AtTarget(s) == Strip(Lower(s.detected_mood.str)) = Strip(Lower(s.target_mood))

\* lines 1354-1391: the mood is the target already
AlreadyAtTarget(s, rng, ev) ==
    IF ev.name = "detect_again"
    THEN Outcome(ClearJourney([s EXCEPT !.detected_mood = None,
                                        !.last_detected_emotion = None,
                                        !.mode = "none"]), rng, TRUE)
    ELSE IF ev.name = "change_target"
    THEN Outcome(ClearJourney([s EXCEPT !.mode = "none"]), rng, TRUE)
    ELSE Outcome([s EXCEPT !.screen = "at_target"], rng, FALSE)

\* the path computed is stored, with the mood it starts at (lines 1410-1412)
Computed(s, emotion_path) ==
    [s EXCEPT !.emotion_path = StoredPath(emotion_path),
              !.original_detected_mood = s.detected_mood,
              !.path_computed = TRUE,
              !.recomputed = s.emotion_path.present,
              !.journey_path = emotion_path,
              !.only_happy = TRUE, !.happy_count = 0]

\* a journey that computes the path anew on every run
PathSection_always(s) ==
    {Computed(s, emotion_path) :
        emotion_path \in find_emotion_path(s.detected_mood.str, s.target_mood)}

\* lines 1408-1415: the path is computed when none is stored
PathSection(s) ==
    IF ~s.emotion_path.present
    THEN {Computed(s, emotion_path) :
            emotion_path \in find_emotion_path(s.detected_mood.str, s.target_mood)}
    ELSE {s}

\* lines 1417-1431: the step is brought within the transitions of the path
ValidStep(s) ==
    LET max_step == Len(s.emotion_path.path) - 2
        current_step == IF s.current_transition_step > max_step THEN max_step
                        ELSE s.current_transition_step
    IN  [s EXCEPT !.current_transition_step =
                      IF current_step < 0 THEN 0 ELSE current_step]

\* lines 1444-1447
FromOfStep(s) == Str(s.emotion_path.path[s.current_transition_step + 1])
ToOfStep(s) == Str(s.emotion_path.path[s.current_transition_step + 2])

\* lines 1484-1501: the playlist of the current transition is generated
\* when none is stored
PlaylistSection(s, rng) ==
    IF ~s.current_playlist.present
    THEN { Outcome([s EXCEPT !.current_playlist = StoredPlaylist(g.playlist),
                             !.current_from = FromOfStep(s),
                             !.current_to = ToOfStep(s)], g.rng, FALSE)
           : g \in generate_playlist(FromOfStep(s).str, ToOfStep(s).str, 5,
                                     NoSeed, rng) }
    ELSE {Outcome(s, rng, FALSE)}

\* lines 1498-1501: the transition the feedback section speaks of
CurrentFrom(s) == IF s.current_from.isNone THEN FromOfStep(s) ELSE s.current_from
CurrentTo(s) == IF s.current_to.isNone THEN ToOfStep(s) ELSE s.current_to

\* a negative feedback that takes the journey back to its first transition
NegativeFeedback_restart(s, rng, ev) ==
    { Outcome([s EXCEPT !.current_playlist = StoredPlaylist(g.playlist),
                        !.current_transition_step = 0], g.rng, TRUE)
      : g \in generate_playlist(CurrentFrom(s).str, CurrentTo(s).str, 5,
                                Seed(ev.seed), rng) }

\* lines 1556-1599: "Not Effective" and "Neutral": another playlist for the
\* same transition, from a seed drawn for it
NegativeFeedback(s, rng, ev) ==
    { IF g.playlist # <<>>
      THEN Outcome([s EXCEPT !.current_playlist = StoredPlaylist(g.playlist)],
                   g.rng, TRUE)
      ELSE Outcome([s EXCEPT !.detected_mood = None, !.mode = "none",
                             !.last_detected_emotion = None,
                             !.current_playlist = NoPlaylist,
                             !.screen = "failed"], g.rng, FALSE)
      : g \in generate_playlist(CurrentFrom(s).str, CurrentTo(s).str, 5,
                                Seed(ev.seed), rng) }

\* lines 1654-1661 and 1674-1681: "Reset everything"
ResetSession(s) ==
    ClearJourney([s EXCEPT !.detected_mood = None, !.mode = "none",
                           !.last_detected_emotion = None])

\* lines 1601-1682: "Great": the next transition of the stored path, or the
\* end of the journey
PositiveFeedback(s, rng, ev) ==
    LET emotion_path == s.emotion_path.path
        next_step == s.current_transition_step + 1
        counted == [s EXCEPT !.happy_count = IF s.only_happy THEN @ + 1 ELSE @]
    IN  IF next_step < Len(emotion_path) - 1
        THEN { IF g.playlist # <<>>
               THEN Outcome([counted EXCEPT
                               !.current_transition_step = next_step,
                               !.current_playlist = StoredPlaylist(g.playlist),
                               !.detected_mood = Str(emotion_path[next_step + 1]),
                               !.current_from = Str(emotion_path[next_step + 1]),
                               !.current_to = Str(emotion_path[next_step + 2])],
                            g.rng, TRUE)
               ELSE Outcome([ResetSession(counted) EXCEPT !.screen = "failed"],
                            g.rng, FALSE)
               : g \in generate_playlist(emotion_path[next_step + 1],
                                         emotion_path[next_step + 2], 5,
                                         NoSeed, rng) }
        ELSE {Outcome([ResetSession(counted) EXCEPT !.screen = "complete"],
                      rng, FALSE)}

\* lines 1503-1682: the playlist is shown, with the feedback buttons when
\* it has songs, and the feedback given is handled
ShowPlaylist(s, rng, ev) ==
    IF s.current_playlist.songs = <<>>
    THEN {Outcome([s EXCEPT !.screen = "no_songs"], rng, FALSE)}
    ELSE IF ev.name \in {"sad", "neutral"} THEN NegativeFeedback(s, rng, ev)
    ELSE IF ev.name = "happy" THEN PositiveFeedback(s, rng, ev)
    ELSE {Outcome([s EXCEPT !.screen = "journey"], rng, FALSE)}

\* lines 1348-1682: what the script does with the mood locked in
JourneySection(s, rng, ev) ==
    IF ~IsSet(s.detected_mood)
    THEN {Outcome([s EXCEPT !.screen = "detect"], rng, FALSE)}
    ELSE IF AtTarget(s) THEN {AlreadyAtTarget(s, rng, ev)}
    ELSE UNION { UNION { ShowPlaylist(o.s, o.rng, ev)
                         : o \in PlaylistSection(ValidStep(s1), rng) }
                 : s1 \in PathSection(s) }

\* lines 1069-1346: the section of the mode chosen
DetectionSection(s, rng, ev) ==
    IF s.mode = "manual" THEN Outcome(ManualSection(s, ev), rng, FALSE)
    ELSE IF s.mode = "webcam" THEN WebcamSection(s, rng, ev)
    ELSE Outcome(s, rng, FALSE)

\* st.rerun() ends the run where it is called; otherwise the script goes
\* on to the journey
AfterDetection(o, ev) ==
    IF o.rerun THEN {o} ELSE JourneySection(o.s, o.rng, ev)

\* render_new_session, lines 1012-1682: one run of the script
Script(s, rng, ev) ==
    IF ~is_ready THEN {Outcome([s EXCEPT !.screen = "not_ready"], rng, FALSE)}
    ELSE AfterDetection(DetectionSection(StartButtons(s, ev), rng, ev), ev)

\* the record of the journey at the start of the run of an interaction:
\* the interaction, and whether the journey has seen positive feedback only
Marked(s) ==
    IF s.pending = Rerun THEN s
    ELSE [s EXCEPT !.last_event = s.pending.name, !.path_computed = FALSE,
                   !.recomputed = FALSE,
                   !.journey_path = IF s.emotion_path.present THEN @ ELSE <<>>,
                   !.only_happy = @ /\ s.pending.name = "happy",
                   !.happy_count = IF s.only_happy /\ s.pending.name = "happy"
                                   THEN @ ELSE 0]

\* the session a run leaves: with st.rerun() called, another run is due
\* and the page is not shown
Left(o) ==
    IF o.rerun THEN [o.s EXCEPT !.pending = Rerun, !.screen = "rerun"]
    ELSE [o.s EXCEPT !.pending = Idle]

\* streamlit runs the script from the top with the widget acted on
\* reporting it, and again when the run called st.rerun()
RenderNewSession ==
    /\ session.pending # Idle
    /\ \E o \in Script(Marked(session), np_random, session.pending) :
          /\ session' = Left(o)
          /\ np_random' = o.rng
    /\ UNCHANGED <<calls, pathVars, vaVars, corpusVars, queryVars,
                   transVars, scanVars>>

\* the user acts on a widget of the page shown: a run of the script is due
Interaction(ev) ==
    /\ session.pending = Idle
    /\ session' = [session EXCEPT !.pending = ev]
    /\ UNCHANGED <<np_random, calls, pathVars, vaVars, corpusVars, queryVars,
                   transVars, scanVars>>

\* a profile is selected: set_active_profile, lines 641-655
SetActiveProfile(target_mood) ==
    /\ session.pending = Idle
    /\ session' = NewSession(target_mood)
    /\ UNCHANGED <<np_random, calls, pathVars, vaVars, corpusVars, queryVars,
                   transVars, scanVars>>

StartWithWebcam == session.screen # "not_ready" /\ Interaction(Event("start_webcam"))
StartWithManualInput == session.screen # "not_ready" /\ Interaction(Event("start_manual"))
GetRecommendation(manual_mood) ==
    /\ session.mode = "manual"
    /\ Interaction(MoodEvent("get_recommendation", Str(manual_mood)))
\* the detection method is chosen, the stream is started or stopped
ChooseMethod(method) ==
    /\ session.mode = "webcam"
    /\ \/ method = "use_snapshot" /\ session.camera # "snapshot"
       \/ method = "use_realtime" /\ session.camera = "snapshot"
       \/ method = "play" /\ session.camera = "stopped"
       \/ method = "stop" /\ session.camera = "playing"
    /\ Interaction(Event(method))
\* the stream delivers an emotion (at most MaxHistory of them are followed)
MaxHistory == 2
StreamFrames(detected) ==
    /\ session.mode = "webcam" /\ session.camera = "playing"
    /\ Len(session.emotion_history) < MaxHistory
    /\ Interaction(MoodEvent("frames", Str(detected)))
TakeSnapshot(detected) ==
    /\ session.mode = "webcam" /\ session.camera = "snapshot"
    /\ Interaction(MoodEvent("snapshot", detected))
ClearDetection ==
    /\ session.mode = "webcam" /\ IsSet(session.last_detected_emotion)
    /\ Interaction(Event("clear_detection"))
UseThisMood ==
    /\ session.mode = "webcam"
    /\ IsSet(normalize_emotion(session.last_detected_emotion))
    /\ Interaction(Event("use_this_mood"))
GiveFeedback(feedback, seed) ==
    /\ session.screen = "journey"
    /\ Interaction(FeedbackEvent(feedback, seed))
DetectAgain == session.screen = "at_target" /\ Interaction(Event("detect_again"))
ChangeTargetMood == session.screen = "at_target" /\ Interaction(Event("change_target"))
\* any other interaction with the page: the script runs with no button pressed
Refresh == session.screen # "not_ready" /\ Interaction(NoEvent)

----------------------------------------------------------------------------
(* Inputs and specifications *)

MaxRows == 2

Capitalized(s) == [i \in 1..Len(s) |-> IF i = 1 THEN UpperChars[CHOOSE k \in 1..26 : LowerChars[k] = s[1]] ELSE s[i]]
Padded(s) == <<" ">> \o s \o <<"\t", " ">>

\* arguments of get_va_coordinates
VAInputs ==
    {None} \cup {Str(s) : s \in PathInputs}
           \cup {Str(Capitalized(s)) : s \in DOMAIN EMOTION_TO_VA \cup {xyz}}
           \cup {Str(Padded(s)) : s \in DOMAIN EMOTION_TO_VA \cup {xyz}}

\* rows of the csv
ValenceCells == {Num(0), Num(10), Num(12), Num(30), Text}
ArousalCells == {Num(0), Num(10), Num(30), NaN}
Ids == {"t1", "t2", MissingId}
CsvRows == [spotify_id : Ids, valence : ValenceCells, arousal : ArousalCells]
RawFrames == UNION {[1..n -> CsvRows] : n \in 0..MaxRows}
\* the frame as read: every row carries its pandas index
Indexed(rows) ==
    [i \in 1..Len(rows) |->
        [index |-> i, spotify_id |-> rows[i].spotify_id,
         valence |-> rows[i].valence, arousal |-> rows[i].arousal]]

PathIdle ==
    /\ start_in = <<>> /\ target_in = <<>> /\ pc = "idle"
    /\ start = <<>> /\ target = <<>> /\ queue = <<>> /\ visited = {}
    /\ found_paths = <<>> /\ result = <<>>
VAIdle == emotion = None /\ va_pc = "idle" /\ va_result = <<>>
CorpusIdle == raw = <<>> /\ df = <<>> /\ df_pc = "idle" /\ columns = {}
QueryIdle == query = <<>> /\ q_pc = "idle" /\ songs = <<>>
PlayIdle == np_random = 0 /\ calls = <<>>
TransIdle == tr_args = <<>> /\ tr_pc = "idle" /\ transitions = <<>>
ScanIdle == scan_args = <<>> /\ scan_pc = "idle" /\ scan_result = <<>>
SessionIdle == session = <<>>
RestIdle == TransIdle /\ ScanIdle /\ SessionIdle

\* the corpora an engine is built over: the first rows of a csv, a csv
\* without an artist column, a csv without a valence column
MaxTracks == 3
TrackPool ==
    << [spotify_id |-> "t1", valence |-> Num(0), arousal |-> Num(0)],
       [spotify_id |-> "t2", valence |-> Num(5), arousal |-> Num(0)],
       [spotify_id |-> "t3", valence |-> Num(5), arousal |-> Num(5)],
       [spotify_id |-> "t4", valence |-> Num(-5), arousal |-> Num(10)],
       [spotify_id |-> "t5", valence |-> Num(10), arousal |-> Num(-10)] >>
NoValence ==
    Indexed(<< [spotify_id |-> "t1", valence |-> NaN, arousal |-> Num(0)] >>)
Corpora ==
    {[raw |-> Indexed(SubSeq(TrackPool, 1, n)),
      df |-> preprocess_data(Indexed(SubSeq(TrackPool, 1, n))),
      columns |-> AllColumns] : n \in 0..Min(MaxTracks, Len(TrackPool))}
    \cup {[raw |-> Indexed(SubSeq(TrackPool, 1, 2)),
           df |-> preprocess_data(Indexed(SubSeq(TrackPool, 1, 2))),
           columns |-> AllColumns \ {"artist"}],
          [raw |-> NoValence, df |-> NoValence,
           columns |-> AllColumns \ {"valence"}]}

\* arguments of get_songs_in_va_range
MaxSongs == 2
Limits == {<<0, 1>>, <<1, 2>>}
Queries ==
    [v_min : Limits, v_max : Limits, a_min : Limits, a_max : Limits,
     num_songs : 0..MaxSongs,
     exclude_spotify_ids : {NoIds, IdSet({}), IdSet({"t1"}), IdSet({"t2", "t9"})}]

\* find_emotion_path called with any two inputs
Init ==
    /\ start_in \in PathInputs /\ target_in \in PathInputs
    /\ pc = "call"
    /\ start = <<>> /\ target = <<>> /\ queue = <<>> /\ visited = {}
    /\ found_paths = <<>> /\ result = <<>>
    /\ VAIdle /\ CorpusIdle /\ QueryIdle /\ PlayIdle
    /\ RestIdle

Next == Enter \/ LoopIter \/ Finish

Spec == Init /\ [][Next]_vars

\* the call runs to completion: no step of it waits on anything
FairSpec == Spec /\ WF_vars(Next)

\* get_va_coordinates called with any input
InitVA ==
    /\ emotion \in VAInputs /\ va_pc = "call" /\ va_result = <<>>
    /\ PathIdle /\ CorpusIdle /\ QueryIdle /\ PlayIdle
    /\ RestIdle

NextVA == GetVA

SpecVA == InitVA /\ [][NextVA]_vars

\* a MusicEngine constructed over any csv
InitCorpus ==
    /\ raw \in {Indexed(f) : f \in RawFrames}
    /\ df = <<>> /\ df_pc = "raw" /\ columns = AllColumns
    /\ PathIdle /\ VAIdle /\ QueryIdle /\ PlayIdle
    /\ RestIdle

NextCorpus == MusicEngineInit

SpecCorpus == InitCorpus /\ [][NextCorpus]_vars

\* get_songs_in_va_range called on a loaded engine with any arguments
InitQuery ==
    /\ \E c \in Corpora : raw = c.raw /\ df = c.df /\ columns = c.columns
    /\ df_pc = "loaded"
    /\ query \in Queries /\ q_pc = "call" /\ songs = <<>>
    /\ PathIdle /\ VAIdle /\ PlayIdle
    /\ RestIdle

NextQuery == GetSongsInVaRange

SpecQuery == InitQuery /\ [][NextQuery]_vars

\* arguments of _gradient_based_transition: the points of two emotions
\* as line 392-393 build them, and a number of points
MaxPoints == 5
TransitionArgs ==
    [start_features : {Features(e) : e \in {happy, sad, calm, neutral, angry}},
     end_features : {Features(e) : e \in {happy, sad, calm, neutral, angry}},
     num_steps : 0..MaxPoints]

\* _gradient_based_transition called with any arguments
InitTransition ==
    /\ tr_args \in TransitionArgs /\ tr_pc = "call" /\ transitions = <<>>
    /\ PathIdle /\ VAIdle /\ CorpusIdle /\ QueryIdle /\ PlayIdle
    /\ ScanIdle /\ SessionIdle

NextTransition == GradientBasedTransition

SpecTransition == InitTransition /\ [][NextTransition]_vars

\* the fractional points of the two synthesizers, between any two different
\* emotions of the table: the midpoint, the point at one third and the point
\* at two thirds, with the two emotions excluded and, as for the second
\* intermediate of line 214, a third one as well
ScanArgs ==
    UNION {
        {[point |-> MidPoint(st[1], st[2]), factor |-> 2, excluded |-> {st[1], st[2]}],
         [point |-> ThirdPoint(st[1], st[2], 1), factor |-> 3,
          excluded |-> {st[1], st[2]}],
         [point |-> ThirdPoint(st[1], st[2], 2), factor |-> 3,
          excluded |-> {st[1], st[2]}]}
        \cup {[point |-> ThirdPoint(st[1], st[2], 2), factor |-> 3,
                excluded |-> {st[1], st[2], i1}] :
                  i1 \in ScanEuclid(ThirdPoint(st[1], st[2], 1), 3, {st[1], st[2]})}
        : st \in {q \in (DOMAIN EMOTION_TO_VA) \X (DOMAIN EMOTION_TO_VA) : q[1] # q[2]} }

InitScan ==
    /\ scan_args \in ScanArgs /\ scan_pc = "call" /\ scan_result = <<>>
    /\ PathIdle /\ VAIdle /\ CorpusIdle /\ QueryIdle /\ PlayIdle
    /\ TransIdle /\ SessionIdle

NextScan == ScanBoth

SpecScan == InitScan /\ [][NextScan]_vars

\* arguments of generate_playlist: paths of 2, 3 and 4 segments, and two
\* pairs that are one emotion once lowered and trimmed
MaxSteps == 3
MaxSeed == 1
PlaylistPairs ==
    {<<happy, loving>>, <<<<"H", "A", "P", "P", "Y">>, sad>>, <<happy, neutral>>,
     <<<<"C", "a", "l", "m", "\n">>, calm>>, <<sad, sad>>}
RandomStates == {NoSeed} \cup {Seed(n) : n \in 0..MaxSeed}
PlaylistArgs ==
    {NewCall(p[1], p[2], n, r) :
        p \in PlaylistPairs, n \in 0..MaxSteps, r \in RandomStates}
RepeatArgs ==
    {NewCall(happy, loving, n, r) : n \in 0..MaxSteps, r \in RandomStates}
ConcurrentArgs ==
    {NewCall(p[1], p[2], n, Seed(k)) :
        p \in {<<happy, loving>>, <<<<"H", "A", "P", "P", "Y">>, sad>>},
        n \in 0..MaxSteps, k \in 0..MaxSeed}
\* a caller that makes no call
Absent == [NewCall(<<>>, <<>>, 0, NoSeed) EXCEPT !.pc = "absent"]

LoadedEngine ==
    /\ \E c \in Corpora : raw = c.raw /\ df = c.df /\ columns = c.columns
    /\ df_pc = "loaded"

\* one call of generate_playlist on a loaded engine, the generator in any state
InitPlaylist ==
    /\ LoadedEngine
    /\ np_random \in 0..(RngStates - 1)
    /\ \E a \in PlaylistArgs : calls = [c \in Calls |-> IF c = 1 THEN a ELSE Absent]
    /\ PathIdle /\ VAIdle /\ QueryIdle
    /\ RestIdle

\* calls that follow one another: a call starts and steps only while no
\* other call is under way
InTurn(c) == \A d \in Calls \ {c} : ~Running(d)

NextPlaylist ==
    \/ \E c \in Calls : InTurn(c) /\ Call(c)
    \/ \E c \in Calls : InTurn(c) /\ SegmentStart(c)
    \/ \E c \in Calls : InTurn(c) /\ SelectSong(c)
    \/ \E c \in Calls : InTurn(c) /\ SegmentEnd(c)

SpecPlaylist == InitPlaylist /\ [][NextPlaylist]_vars

\* a corpus of more tracks than the 50 neighbours asked for: 3 rows of 17
\* tracks on a grid, valence -0.8 .. 0.8 and arousal -1, 0, 1, the first
\* track of the frame in the corner the furthest from the happy emotions
GridCorpus ==
    LET rows == [k \in 1..(3 * 17) |->
                    [spotify_id |-> "g" \o ToString(k),
                     valence |-> Num(((k - 1) % 17) - 8),
                     arousal |-> Num((((k - 1) \div 17) - 1) * 10)]]
    IN  [raw |-> Indexed(rows), df |-> preprocess_data(Indexed(rows)),
         columns |-> AllColumns]

\* one call of generate_playlist, over a small corpus or over the grid
InitNearest ==
    \/ InitPlaylist
    \/ /\ raw = GridCorpus.raw /\ df = GridCorpus.df /\ columns = GridCorpus.columns
       /\ df_pc = "loaded"
       /\ np_random \in 0..(RngStates - 1)
       /\ \E a \in RepeatArgs : calls = [c \in Calls |-> IF c = 1 THEN a ELSE Absent]
       /\ PathIdle /\ VAIdle /\ QueryIdle
       /\ RestIdle

SpecNearest == InitNearest /\ [][NextPlaylist]_vars

\* two calls, one after the other in either order
InitRepeat ==
    /\ LoadedEngine
    /\ np_random \in 0..(RngStates - 1)
    /\ calls \in [Calls -> RepeatArgs]
    /\ PathIdle /\ VAIdle /\ QueryIdle
    /\ RestIdle

SpecRepeat == InitRepeat /\ [][NextPlaylist]_vars

\* two calls with explicit seeds made from two threads, one for each of the
\* two requests: their steps interleave in any order
InitConcurrent ==
    /\ LoadedEngine
    /\ np_random \in 0..(RngStates - 1)
    /\ calls \in [Calls -> ConcurrentArgs]
    /\ calls[1].target_emotion = loving /\ calls[2].target_emotion = sad
    /\ PathIdle /\ VAIdle /\ QueryIdle
    /\ RestIdle

NextConcurrent ==
    \/ \E c \in Calls : Call(c)
    \/ \E c \in Calls : SegmentStart(c)
    \/ \E c \in Calls : SelectSong(c)
    \/ \E c \in Calls : SegmentEnd(c)

SpecConcurrent == InitConcurrent /\ [][NextConcurrent]_vars

\* a session: the targets of two profiles, the moods chosen by hand, what
\* the detector makes of a frame, and the emotions the stream delivers
SessionTargets == {happy}
ManualMoods == {happy, loving, energized}
DetectorOutputs == {None, Str(<<"H", "a", "p", "p", "y">>), Str(disgust)}
FrameEmotions == {normalize_emotion(Str(disgust)).str}

\* the engines of a session: one without tracks and one with two
SessionCorpora == {c \in Corpora : c.columns = AllColumns /\ Len(c.df) \in {0, 2}}

\* a profile has just been selected, over one of these engines
InitSession ==
    /\ \E c \in SessionCorpora : raw = c.raw /\ df = c.df /\ columns = c.columns
    /\ df_pc = "loaded"
    /\ np_random \in 0..(RngStates - 1)
    /\ calls = [c \in Calls |-> Absent]
    /\ \E target_mood \in SessionTargets : session = NewSession(target_mood)
    /\ PathIdle /\ VAIdle /\ QueryIdle
    /\ TransIdle /\ ScanIdle

NextSession ==
    \/ \E target_mood \in SessionTargets : SetActiveProfile(target_mood)
    \/ StartWithWebcam
    \/ StartWithManualInput
    \/ \E manual_mood \in ManualMoods : GetRecommendation(manual_mood)
    \/ \E method \in {"use_snapshot", "use_realtime", "play", "stop"} :
          ChooseMethod(method)
    \/ \E detected \in DetectorOutputs : TakeSnapshot(detected)
    \/ \E detected \in FrameEmotions : StreamFrames(detected)
    \/ ClearDetection
    \/ UseThisMood
    \/ \E feedback \in {"sad", "neutral", "happy"} :
          \E seed \in 1..Max(1, MaxSeed) : GiveFeedback(feedback, seed)
    \/ DetectAgain
    \/ ChangeTargetMood
    \/ Refresh
    \/ RenderNewSession

SpecSession == InitSession /\ [][NextSession]_vars

----------------------------------------------------------------------------
(* Properties of find_emotion_path *)

\* the normal form of a name, trimmed after lower-casing
Trimmed(s) == Strip(Lower(s))

\* the affect point of a normalized name, <<0, 0>> for an unknown one
PointOf(e) == IF e \in DOMAIN EMOTION_TO_VA THEN EMOTION_TO_VA[e] ELSE <<0, 0>>

ElementsOf(p) == {p[i] : i \in 1..Len(p)}

\* the emotions one edge away from a set of emotions
Successors(S) == UNION {ElementsOf(Neighbours(e)) : e \in S}

RECURSIVE Closure(_)
Closure(S) == LET T == S \cup Successors(S) IN IF T = S THEN S ELSE Closure(T)

\* some sequence of one or more edges leads from s to t
GraphReaches(s, t) == t \in Closure(Successors({s}))

KnownPair ==
    /\ start \in DOMAIN EMOTION_TO_VA
    /\ target \in DOMAIN EMOTION_TO_VA
    /\ start # target

\* C1: for distinct emotions that are both keys of EMOTION_TO_VA the returned
\* path has at least 3 emotions, and exactly 4 when no sequence of edges
\* leads from the start to the target.
C1_MinimumLength ==
    (pc = "done" /\ KnownPair) =>
        /\ Len(result) >= 3
        /\ (~GraphReaches(start, target) => Len(result) = 4)

\* a direct edge start -> target whose returned path was lengthened to 3
C1_Witness ==
    /\ pc = "done" /\ KnownPair
    /\ target \in ElementsOf(Neighbours(start))
    /\ Len(result) = 3

\* C2: when the two arguments are equal after lower-casing and trimming, the
\* result is the one-element path of that name and the search was never
\* set up (no queue, no visited set, no found path).
C2_Reflexive ==
    (pc = "done" /\ Trimmed(start_in) = Trimmed(target_in)) =>
        /\ result = <<Trimmed(start_in)>>
        /\ queue = <<>> /\ visited = {} /\ found_paths = <<>>

\* two different argument strings that name the same emotion
C2_Witness ==
    /\ pc = "done"
    /\ start_in # target_in
    /\ Trimmed(start_in) = Trimmed(target_in)
    /\ result = <<Trimmed(start_in)>>

\* the graph paths from the last emotion of path to tgt that revisit nothing
RECURSIVE SimplePathsFrom(_, _)
SimplePathsFrom(path, tgt) ==
    UNION { IF n = tgt THEN {Append(path, n)}
            ELSE SimplePathsFrom(Append(path, n), tgt)
            : n \in ElementsOf(Neighbours(path[Len(path)])) \ ElementsOf(path) }

\* the graph paths from s to t with at least 2 transitions
TwoStepPaths(s, t) == {p \in SimplePathsFrom(<<s>>, t) : Len(p) >= 3}

\* C3: whenever the graph holds a path from start to target with at least 2
\* transitions, the result is such a path and no such path is shorter.
C3_ShortestGraphPath ==
    (pc = "done" /\ start # target /\ TwoStepPaths(start, target) # {}) =>
        /\ result \in TwoStepPaths(start, target)
        /\ \A p \in TwoStepPaths(start, target) : Len(result) <= Len(p)

\* squared Euclidean distance, times 9, from emotion e to the point k/3 of
\* the way from s to t
ThirdDistSq(e, s, t, k) ==
    LET dv == 3 * PointOf(e)[1] - ((3 - k) * PointOf(s)[1] + k * PointOf(t)[1])
        da == 3 * PointOf(e)[2] - ((3 - k) * PointOf(s)[2] + k * PointOf(t)[2])
    IN  dv * dv + da * da

\* e is a table emotion outside excl, and none outside excl is nearer to the
\* k/3 point
NearestToThird(e, s, t, k, excl) ==
    /\ e \in DOMAIN EMOTION_TO_VA \ excl
    /\ \A f \in DOMAIN EMOTION_TO_VA \ excl :
          ThirdDistSq(e, s, t, k) <= ThirdDistSq(f, s, t, k)

\* C4: when the search found no path, the result is [start, i1, i2, target]
\* with i1 nearest to the 1/3 point and i2 nearest to the 2/3 point, each
\* chosen outside start, target and the intermediate already chosen; the
\* four emotions are pairwise distinct.
C4_SynthesizedPath ==
    (pc = "done" /\ start # target /\ found_paths = <<>>) =>
        /\ Len(result) = 4
        /\ result[1] = start /\ result[4] = target
        /\ NearestToThird(result[2], start, target, 1, {start, target})
        /\ NearestToThird(result[3], start, target, 2, {start, target, result[2]})
        /\ Cardinality(ElementsOf(result)) = 4

\* an unknown start: nothing leads out of it
C4_Witness ==
    /\ pc = "done" /\ start # target /\ found_paths = <<>>
    /\ start \notin DOMAIN EMOTION_TRANSITIONS
    /\ target \in DOMAIN EMOTION_TO_VA
    /\ Len(result) = 4

\* distances, times 2 and times 4, from emotion e to the midpoint of s and t
MidManhattan(e, s, t) ==
    Abs(2 * PointOf(e)[1] - (PointOf(s)[1] + PointOf(t)[1]))
    + Abs(2 * PointOf(e)[2] - (PointOf(s)[2] + PointOf(t)[2]))
MidEuclidSq(e, s, t) ==
    LET dv == 2 * PointOf(e)[1] - (PointOf(s)[1] + PointOf(t)[1])
        da == 2 * PointOf(e)[2] - (PointOf(s)[2] + PointOf(t)[2])
    IN  dv * dv + da * da

OnlyDirectPaths ==
    /\ found_paths # <<>>
    /\ \A i \in 1..Len(found_paths) : Len(found_paths[i]) = 2

\* C5: when every path the search found is the direct edge, the result is
\* [start, m, target] with m the table emotion other than start and target
\* nearest to the midpoint (under the Manhattan distance the code uses, and
\* under the Euclidean distance as well).
C5_ExtendedPath ==
    (pc = "done" /\ start # target /\ OnlyDirectPaths) =>
        /\ Len(result) = 3
        /\ result[1] = start /\ result[3] = target
        /\ result[2] \in DOMAIN EMOTION_TO_VA \ {start, target}
        /\ \A f \in DOMAIN EMOTION_TO_VA \ {start, target} :
              /\ MidManhattan(result[2], start, target) <= MidManhattan(f, start, target)
              /\ MidEuclidSq(result[2], start, target) <= MidEuclidSq(f, start, target)

C5_Witness ==
    /\ pc = "done" /\ start # target /\ OnlyDirectPaths
    /\ Len(result) = 3
    /\ result[2] \notin ElementsOf(Neighbours(start))

\* C6: the returned path begins with the normalized start and ends with the
\* normalized target.
C6_Endpoints ==
    pc = "done" =>
        /\ Len(result) >= 1
        /\ result[1] = Trimmed(start_in)
        /\ result[Len(result)] = Trimmed(target_in)

\* arguments with capitals or whitespace, and a path of several emotions
C6_Witness ==
    /\ pc = "done"
    /\ start_in # Trimmed(start_in)
    /\ target_in # Trimmed(target_in)
    /\ Len(result) >= 3

\* C7: get_va_coordinates returns the coordinates of the key its argument
\* matches after trimming and lower-casing, and <<0, 0>>, the point of
\* "neutral", for None, the empty string and every other name.
C7_Coordinates ==
    va_pc = "done" =>
        va_result = IF emotion.isNone THEN <<0, 0>>
                    ELSE IF Trimmed(emotion.str) \in DOMAIN EMOTION_TO_VA
                         THEN EMOTION_TO_VA[Trimmed(emotion.str)]
                    ELSE <<0, 0>>

\* a key written with a capital or padded with whitespace
C7_Witness ==
    /\ va_pc = "done"
    /\ ~emotion.isNone
    /\ emotion.str \notin DOMAIN EMOTION_TO_VA
    /\ Trimmed(emotion.str) \in DOMAIN EMOTION_TO_VA
    /\ va_result # <<0, 0>>

\* C8: every call of find_emotion_path returns, and returns a non-empty path.
C8_Terminates == <>(pc = "done" /\ Len(result) >= 1)

\* two different names absent from both tables
C8_Witness ==
    /\ pc = "done"
    /\ start # target
    /\ start \notin DOMAIN EMOTION_TO_VA \cup DOMAIN EMOTION_TRANSITIONS
    /\ target \notin DOMAIN EMOTION_TO_VA \cup DOMAIN EMOTION_TRANSITIONS
    /\ Len(result) >= 1

----------------------------------------------------------------------------
(* Properties of the corpus load *)

\* the cells of column col that are numbers, in the frame as read
NumbersOf(col) ==
    {raw[i][col].val : i \in {j \in 1..Len(raw) : raw[j][col].kind = "num"}}

InUnitRange(x) == RLe(<<0, 1>>, x) /\ RLe(x, <<1, 1>>)

\* C9: a valence or arousal column whose numbers all lie in [0, 1] is loaded
\* with every value x rescaled to 2x - 1.
C9_UnitRangeRescaled ==
    df_pc = "loaded" =>
        \A col \in {"valence", "arousal"} :
            (\A x \in NumbersOf(col) : InUnitRange(x)) =>
                \A i \in 1..Len(df) :
                    REq(df[i][col].val,
                        RSub(RMul(<<2, 1>>, raw[df[i].index][col].val), <<1, 1>>))

\* C10: after the load every valence and every arousal lies in [-1, 1].
C10_InRange ==
    df_pc = "loaded" =>
        \A i \in 1..Len(df) : \A col \in {"valence", "arousal"} :
            RLe(<<-1, 1>>, df[i][col].val) /\ RLe(df[i][col].val, <<1, 1>>)

----------------------------------------------------------------------------
(* Properties of the loaded corpus *)

\* a csv row that line 82 keeps: an id and two numeric coordinates
CleanRow(r) ==
    /\ r.spotify_id # MissingId
    /\ r.valence.kind = "num"
    /\ r.arousal.kind = "num"

\* C11: after preprocess_data no two rows have the same spotify_id, no row
\* has a missing or non-numeric valence or arousal or a missing id, and the
\* load drops the defective rows without failing: the ids that remain are
\* exactly the ids of the clean rows of the csv, each row standing where a
\* clean row of that id stood
C11_CleanUnique ==
    df_pc = "loaded" =>
        /\ \A i, j \in 1..Len(df) : i # j => df[i].spotify_id # df[j].spotify_id
        /\ \A i \in 1..Len(df) : CleanRow(df[i])
        /\ \A i \in 1..Len(df) :
              /\ df[i].index \in 1..Len(raw)
              /\ CleanRow(raw[df[i].index])
              /\ raw[df[i].index].spotify_id = df[i].spotify_id
        /\ {df[i].spotify_id : i \in 1..Len(df)} =
           {raw[i].spotify_id : i \in {k \in 1..Len(raw) : CleanRow(raw[k])}}

\* a csv with the same id on two clean rows has been loaded, and one stayed
C11_Witness ==
    /\ df_pc = "loaded"
    /\ Len(raw) = 2
    /\ CleanRow(raw[1]) /\ CleanRow(raw[2])
    /\ raw[1].spotify_id = raw[2].spotify_id
    /\ Len(df) = 1

----------------------------------------------------------------------------
(* Properties of get_songs_in_va_range *)

\* the tracks of the corpus inside the inclusive ranges whose id is not
\* excluded
Matching ==
    {i \in 1..Len(df) :
        /\ df[i].valence.kind = "num" /\ df[i].arousal.kind = "num"
        /\ query.v_min[1] * df[i].valence.val[2] <= df[i].valence.val[1] * query.v_min[2]
        /\ df[i].valence.val[1] * query.v_max[2] <= query.v_max[1] * df[i].valence.val[2]
        /\ query.a_min[1] * df[i].arousal.val[2] <= df[i].arousal.val[1] * query.a_min[2]
        /\ df[i].arousal.val[1] * query.a_max[2] <= query.a_max[1] * df[i].arousal.val[2]
        /\ df[i].spotify_id \notin query.exclude_spotify_ids.ids}

\* C12: get_songs_in_va_range returns exactly min(num_songs, M) tracks, M the
\* number of corpus tracks inside the inclusive ranges whose id is not
\* excluded; every returned track is such a track, none is returned twice,
\* and the result is empty when M = 0
C12_RangeQuery ==
    q_pc = "done" =>
        /\ Len(songs) = IF query.num_songs <= Cardinality(Matching)
                        THEN query.num_songs ELSE Cardinality(Matching)
        /\ \A k \in 1..Len(songs) : \E i \in Matching : songs[k] = df[i]
        /\ \A j, k \in 1..Len(songs) :
              j # k => songs[j].spotify_id # songs[k].spotify_id
        /\ Cardinality(Matching) = 0 => songs = <<>>

\* a query answered with fewer tracks than match, one of them standing on a
\* limit of the range, while an excluded track was inside the ranges
C12_Witness ==
    /\ q_pc = "done"
    /\ query.num_songs >= 1
    /\ Len(songs) = query.num_songs
    /\ Cardinality(Matching) > query.num_songs
    /\ \E i \in 1..Len(df) : /\ df[i].spotify_id \in query.exclude_spotify_ids.ids
                             /\ InVaRange(df[i], query)
    /\ \E k \in 1..Len(songs) : songs[k].valence.val[1] * query.v_max[2]
                                   = query.v_max[1] * songs[k].valence.val[2]

----------------------------------------------------------------------------
(* Properties of generate_playlist *)

\* the corpus is empty or lacks one of the required columns
NotReady ==
    \/ df = <<>>
    \/ \E col \in {"track", "artist", "valence", "arousal", "spotify_id"} :
          col \notin columns

\* the number of tracks of the corpus
N == Cardinality({df[i].spotify_id : i \in 1..Len(df)})

IdsOf(rows) == {rows[k].spotify_id : k \in 1..Len(rows)}
NoRepeat(rows) ==
    \A j, k \in 1..Len(rows) : j # k => rows[j].spotify_id # rows[k].spotify_id

SameOnceTrimmed(a) == Trimmed(a.start_emotion) = Trimmed(a.target_emotion)

\* C13: over a corpus that is not ready generate_playlist returns an empty
\* playlist whatever its arguments, and returns at once: no path is
\* computed, no segment is entered and no song is selected
C13_NotReadyEmpty ==
    NotReady =>
        \A c \in Calls :
            /\ calls[c].pc \in {"absent", "idle", "done"}
            /\ calls[c].playlist = <<>>
            /\ calls[c].emotion_path = <<>>
            /\ calls[c].transition_points = <<>>
            /\ calls[c].selected_songs = <<>>

\* a call for two different emotions and some songs has returned over a
\* corpus that has rows but lacks a column
C13_Witness ==
    /\ NotReady /\ df # <<>>
    /\ calls[1].pc = "done"
    /\ ~SameOnceTrimmed(calls[1])
    /\ calls[1].num_steps >= 1

\* C14: over a ready corpus generate_playlist returns an empty playlist when
\* start and target are the same emotion once lowered and trimmed, whatever
\* num_steps and the seed, and selects nothing on the way
C14_SameEmotionEmpty ==
    \A c \in Calls :
        (~NotReady /\ calls[c].pc # "absent" /\ SameOnceTrimmed(calls[c])) =>
            /\ calls[c].pc \in {"idle", "done"}
            /\ calls[c].playlist = <<>>
            /\ calls[c].selected_songs = <<>>

\* a seeded call has returned whose two emotions are written differently
\* and are the same once lowered and trimmed
C14_Witness ==
    /\ ~NotReady
    /\ calls[1].pc = "done"
    /\ calls[1].start_emotion # calls[1].target_emotion
    /\ SameOnceTrimmed(calls[1])
    /\ calls[1].num_steps >= 1
    /\ ~calls[1].random_state.isNone

\* C15: no playlist holds a track id twice, at any point of its
\* construction and when it is returned, and a playlist is never longer
\* than the corpus has tracks
C15_NoRepeatedTrack ==
    \A c \in Calls :
        /\ NoRepeat(calls[c].selected_songs)
        /\ NoRepeat(calls[c].playlist)
        /\ Len(calls[c].playlist) <= N
        /\ IdsOf(calls[c].selected_songs) = calls[c].used_ids

\* a call that asked for more songs than the corpus has returned all of
\* them once, after transition points that found every track used
C15_Witness ==
    /\ calls[1].pc = "done"
    /\ N = 2
    /\ calls[1].num_steps > N
    /\ IdsOf(calls[1].playlist) = IdsOf(df)
    /\ Len(calls[1].playlist) = N
    /\ calls[1].skipped >= 1

\* C16: a playlist never has more than num_steps tracks, neither while it
\* is built nor when it is returned
C16_AtMostNumSteps ==
    \A c \in Calls :
        /\ Len(calls[c].selected_songs) <= calls[c].num_steps
        /\ Len(calls[c].playlist) <= calls[c].num_steps

\* a call for fewer songs than its path has segments has returned exactly
\* that many
C16_Witness ==
    /\ calls[1].pc = "done"
    /\ calls[1].num_steps >= 1
    /\ Len(calls[1].emotion_path) - 1 > calls[1].num_steps
    /\ Len(calls[1].playlist) = calls[1].num_steps

C18_SeedDeterminism ==
    (/\ calls[1].pc = "done" /\ calls[2].pc = "done"
     /\ calls[1].start_emotion = calls[2].start_emotion
     /\ calls[1].target_emotion = calls[2].target_emotion
     /\ calls[1].num_steps = calls[2].num_steps
     /\ calls[1].random_state = calls[2].random_state
     /\ ~calls[1].random_state.isNone) =>
        calls[1].playlist = calls[2].playlist

\* two such calls have returned a playlist of two songs or more, and the
\* generator was not in the same state when they were entered
C18_Witness ==
    /\ calls[1].pc = "done" /\ calls[2].pc = "done"
    /\ calls[1].start_emotion = calls[2].start_emotion
    /\ calls[1].target_emotion = calls[2].target_emotion
    /\ calls[1].num_steps = calls[2].num_steps
    /\ calls[1].random_state = calls[2].random_state
    /\ ~calls[1].random_state.isNone
    /\ calls[1].entered_at # calls[2].entered_at
    /\ Len(calls[1].playlist) >= 2
    /\ calls[1].playlist = calls[2].playlist

\* a call run from its entry to its return with no other call under way
RECURSIVE RunCall(_, _)
RunCall(a, rng) ==
    IF a.pc = "segment" THEN RunCall(SegmentStartOf(a), rng)
    ELSE IF MorePoints(a)
    THEN LET r == SelectSongOf(a, rng) IN RunCall(r.call, r.rng)
    ELSE IF a.pc \in {"waypoint", "end"} THEN RunCall(SegmentEndOf(a), rng)
    ELSE a

\* what the call of caller c returns when it runs alone
Solo(c) ==
    LET a == calls[c]
        entry == CallOf(NewCall(a.start_emotion, a.target_emotion, a.num_steps,
                                a.random_state), 0, a.emotion_path)
    IN  RunCall(entry.call, entry.rng).playlist

\* C19: of two concurrent calls with explicit seeds, whose steps interleave
\* in any order, each returns the playlist it returns when it runs alone
C19_Isolated ==
    \A c \in Calls : calls[c].pc = "done" => calls[c].playlist = Solo(c)

\* the transition points of segment k of a call (0 for a segment the loop
\* did not reach)
Count(a, k) ==
    IF k <= Len(a.transition_points) THEN a.transition_points[k] ELSE 0

RECURSIVE SumTo(_, _)
SumTo(a, k) == IF k = 0 THEN 0 ELSE Count(a, k) + SumTo(a, k - 1)

\* a call over a ready corpus for two different emotions has returned and
\* none of its transition points was skipped
NothingSkipped(a) ==
    /\ ~NotReady
    /\ a.pc = "done"
    /\ ~SameOnceTrimmed(a)
    /\ a.skipped = 0

\* C20 as stated: with no transition point skipped, every segment but the
\* last has floor(num_steps/S) points, the last has the remainder on top,
\* the counts sum to num_steps, and no two counts differ by more than 1
C20_EvenSegments ==
    \A c \in Calls :
        NothingSkipped(calls[c]) =>
            LET a == calls[c]
                S == Len(a.emotion_path) - 1
            IN  /\ \A k \in 1..(S - 1) : Count(a, k) = a.num_steps \div S
                /\ Count(a, S) = (a.num_steps \div S) + (a.num_steps % S)
                /\ SumTo(a, S) = a.num_steps
                /\ \A j, k \in 1..S : Abs(Count(a, j) - Count(a, k)) <= 1

\* C20 amended: with no transition point skipped, every segment but the
\* last has floor(num_steps/S) points, the last has the whole remainder
\* num_steps mod S on top (up to S - 1 more than the others), and the
\* counts sum to num_steps
C20_LastTakesRemainder ==
    \A c \in Calls :
        NothingSkipped(calls[c]) =>
            LET a == calls[c]
                S == Len(a.emotion_path) - 1
            IN  /\ \A k \in 1..(S - 1) : Count(a, k) = a.num_steps \div S
                /\ Count(a, S) = (a.num_steps \div S) + (a.num_steps % S)
                /\ SumTo(a, S) = a.num_steps
                /\ \A k \in 1..(S - 1) :
                      Count(a, S) - Count(a, k) = a.num_steps % S

\* a call has returned whose last segment had two points more than another
C20_Witness ==
    /\ NothingSkipped(calls[1])
    /\ calls[1].num_steps % (Len(calls[1].emotion_path) - 1) >= 2
    /\ Count(calls[1], Len(calls[1].emotion_path) - 1) >= Count(calls[1], 1) + 2

----------------------------------------------------------------------------
(* Properties of _gradient_based_transition *)

\* the eased fraction of point i of n, as the number of (max(1, n-1))^3-ths:
\* 4t^3 below t = 1/2 and 1 - (-2t+2)^3 / 2 from there on, t = i / max(1, n-1)
EasedCubes(i, n) ==
    LET m == IF n - 1 >= 1 THEN n - 1 ELSE 1
    IN  IF 2 * i < m THEN 4 * i * i * i
        ELSE m * m * m - 4 * (m - i) * (m - i) * (m - i)
Cube(n) ==
    LET m == IF n - 1 >= 1 THEN n - 1 ELSE 1
    IN  m * m * m

\* C21: waypoint i of the n of a segment from A to B is
\* A + (B - A) * ease(i / max(1, n-1)); the eased fraction does not decrease
\* with i and stays in [0, 1]; waypoint 0 is A, and for n >= 2 the last
\* waypoint is B
C21_EasedWaypoints ==
    tr_pc = "done" =>
        LET n == tr_args.num_steps
            A == tr_args.start_features
            B == tr_args.end_features
        IN  /\ Len(transitions) = n
            /\ \A i \in 0..(n - 1) : \A f \in 1..2 :
                  \* transitions[i+1][f] = A[f] + (B[f] - A[f]) * EasedCubes / Cube
                  transitions[i + 1][f][1] * A[f][2] * B[f][2] * Cube(n)
                     = transitions[i + 1][f][2]
                       * (A[f][1] * B[f][2] * Cube(n)
                          + (B[f][1] * A[f][2] - A[f][1] * B[f][2]) * EasedCubes(i, n))
            /\ \A i \in 0..(n - 1) : 0 <= EasedCubes(i, n) /\ EasedCubes(i, n) <= Cube(n)
            /\ \A i \in 1..(n - 1) : EasedCubes(i - 1, n) <= EasedCubes(i, n)
            /\ n >= 1 => \A f \in 1..2 : REq(transitions[1][f], A[f])
            /\ n >= 2 => \A f \in 1..2 : REq(transitions[n][f], B[f])

\* a transition of four points or more between two different points has
\* been computed, so that points fall on both branches of the easing
C21_Witness ==
    /\ tr_pc = "done"
    /\ tr_args.num_steps >= 4
    /\ tr_args.start_features # tr_args.end_features
    /\ Len(transitions) = tr_args.num_steps
    /\ transitions[2] # transitions[1]
    /\ transitions[2] # transitions[3]

----------------------------------------------------------------------------
(* Properties of the transition points of generate_playlist *)

\* C22: in a call for two different emotions and at least one song, the
\* first transition point a song is selected at is the affect point of the
\* start emotion, however many segments the emotion path has
C22_StartsAtStartPoint ==
    \A c \in Calls :
        (/\ ~SameOnceTrimmed(calls[c])
         /\ calls[c].num_steps >= 1
         /\ Len(calls[c].matched_at) >= 1) =>
            calls[c].matched_at[1] = Features(Trimmed(calls[c].start_emotion))

\* the rows of the corpus strictly nearer to the transition point w than the
\* row r, in the scaled space of the recommender of the call a
NearerRows(a, r, w) ==
    {i \in 1..Len(df) :
        ~RLeq(ScaledDistSq(r, w, a.scaler), ScaledDistSq(df[i], w, a.scaler))}

\* r is one of the min(50, N) rows nearest to w
AmongNearest(a, r, w) == Cardinality(NearerRows(a, r, w)) < Min(50, Len(df))

\* C23: the track selected at a transition point is a track of the corpus
\* among the min(50, N) nearest to that point whose id none of the tracks
\* selected before has; a transition point is skipped, adding no track and
\* leaving the used ids as they are, exactly when every one of those
\* nearest tracks is used already
C23_NearestUnused ==
    \A c \in Calls :
        LET a == calls[c]
        IN  /\ Len(a.matched_at) = Len(a.selected_songs)
            /\ Len(a.skipped_at) = a.skipped
            /\ a.used_ids = IdsOf(a.selected_songs)
            /\ \A k \in 1..Len(a.selected_songs) :
                  /\ \E i \in 1..Len(df) : df[i] = a.selected_songs[k]
                  /\ AmongNearest(a, a.selected_songs[k], a.matched_at[k])
                  /\ a.selected_songs[k].spotify_id
                        \notin IdsOf(SubSeq(a.selected_songs, 1, k - 1))
            /\ \A k \in 1..Len(a.skipped_at) :
                  /\ a.skipped_at[k].used_ids \subseteq a.used_ids
                  /\ \A i \in 1..Len(df) :
                        AmongNearest(a, df[i], a.skipped_at[k].target_point)
                            => df[i].spotify_id \in a.skipped_at[k].used_ids

\* a track has been selected from a corpus of more than 50 tracks, less near
\* to its transition point than some other track
C23_Witness ==
    /\ Len(df) > 50
    /\ calls[1].pc = "done"
    /\ Len(calls[1].playlist) = calls[1].num_steps
    /\ \E k \in 1..Len(calls[1].selected_songs) :
          NearerRows(calls[1], calls[1].selected_songs[k], calls[1].matched_at[k]) # {}

\* a transition point has been skipped over a corpus every track of which
\* is in the playlist
C23_WitnessSkipped ==
    /\ calls[1].pc = "done"
    /\ calls[1].skipped >= 1
    /\ Len(calls[1].playlist) >= 2
    /\ IdsOf(calls[1].playlist) = IdsOf(df)

\* the candidates of the last selection of the call a, and their selection
\* weights computed from minus the distance alone
LastCandidates(a) ==
    LET k == Len(a.selected_songs)
    IN  Unused(kneighbors(a.matched_at[k], a.scaler),
               IdsOf(SubSeq(a.selected_songs, 1, k - 1)))
DistanceAlone(a) ==
    LET candidates == LastCandidates(a)
    IN  Probabilities([i \in 1..Len(candidates) |->
            compute_song_score(candidates[i], a.matched_at[Len(a.selected_songs)],
                               a.scaler, {})])

\* a selection made after a first song was chosen, among candidates at two
\* distances or more from the transition point
BonusApplies(a) ==
    /\ Len(a.selected_songs) >= 2
    /\ \E i, j \in 1..Len(a.probabilities) :
          a.probabilities[i].dist_sq # a.probabilities[j].dist_sq

\* C24: once a song has been chosen the diversity bonus changes the
\* selection weights of the candidates of a transition point: they differ
\* from the weights computed from minus the distance alone
C24_BonusChangesWeights ==
    \A c \in Calls :
        BonusApplies(calls[c]) => calls[c].probabilities # DistanceAlone(calls[c])

\* the weights of every selection are those of minus the distance alone
C24_BonusCancels ==
    \A c \in Calls :
        Len(calls[c].selected_songs) >= 1 =>
            calls[c].probabilities = DistanceAlone(calls[c])

----------------------------------------------------------------------------
(* Properties of the two path synthesizers *)

\* C25: on one fractional point and one list of excluded emotions the scan
\* of _extend_short_path and the scan of _create_minimum_transition_path
\* choose the same emotion
C25_SameMetric ==
    scan_pc = "done" => scan_result.extend = scan_result.create

\* C28: for two different emotions no emotion occurs twice in the path
\* find_emotion_path returns: the start occurs at its head only and the
\* target at its end only
C28_NoRevisit ==
    (pc = "done" /\ start # target) =>
        /\ \A j, k \in 1..Len(result) : j # k => result[j] # result[k]
        /\ \A k \in 1..Len(result) : result[k] = start => k = 1
        /\ \A k \in 1..Len(result) : result[k] = target => k = Len(result)

----------------------------------------------------------------------------
(* Properties of the session journey *)

\* a page with the playlist of a journey is on the screen
JourneyShown == session.screen = "journey"
Step == session.current_transition_step
StoredEmotions == session.emotion_path.path

\* C26: the path is computed only when none is stored and never by the run
\* of a positive feedback; through the feedbacks of a journey the stored
\* path is the one computed at its start, and the transition shown at step
\* k is that of the k-th and the next emotion of it
C26_PathKept ==
    /\ ~session.recomputed
    /\ session.last_event = "happy" => ~session.path_computed
    /\ session.emotion_path.present => StoredEmotions = session.journey_path
    /\ JourneyShown =>
          /\ session.emotion_path.present
          /\ session.current_from = Str(session.journey_path[Step + 1])
          /\ session.current_to = Str(session.journey_path[Step + 2])

\* a positive feedback has advanced the journey to a later transition
C26_Witness ==
    /\ JourneyShown /\ session.pending = Idle
    /\ session.last_event = "happy" /\ Step >= 1
    /\ ~session.path_computed

\* C27: on a journey shown the step is within the transitions of the path;
\* the step changes by +1 in the run of a positive feedback with a further
\* transition left, or to 0, and in no other way; the run of a "sad" or
\* "neutral" feedback leaves the step, the path and the emotions of the
\* transition as they are
C27_StepWithin ==
    JourneyShown => Step \in 0..(Len(StoredEmotions) - 2)
C27_StepMoves ==
    session'.current_transition_step # Step =>
        \/ session'.current_transition_step = 0
        \/ /\ session.pending.name = "happy"
           /\ session'.current_transition_step = Step + 1
           /\ Step + 1 <= Len(StoredEmotions) - 2
C27_NegativeKeeps ==
    session.pending.name \in {"sad", "neutral"} =>
        /\ session'.current_transition_step = Step
        /\ session'.emotion_path = session.emotion_path
        /\ session'.current_from = session.current_from
        /\ session'.current_to = session.current_to
C27_StepDiscipline ==
    /\ []C27_StepWithin
    /\ [][C27_StepMoves]_vars
    /\ [][C27_NegativeKeeps]_vars

\* a negative feedback at a later transition has replaced the playlist
C27_Witness ==
    /\ JourneyShown /\ session.pending = Idle
    /\ session.last_event \in {"sad", "neutral"} /\ Step >= 1

\* C29: a journey that has seen positive feedback only, with songs in every
\* playlist, is on the screen until the number of feedbacks is the number
\* of transitions of its path, and is then complete with the path, the
\* playlist and the transition cleared, the step 0 and no mood locked in
Cleared ==
    /\ ~session.emotion_path.present
    /\ ~session.current_playlist.present
    /\ session.current_from = None /\ session.current_to = None
    /\ Step = 0
    /\ session.detected_mood = None
C29_CompleteAfterAll ==
    (/\ session.only_happy /\ session.happy_count >= 1
     /\ session.pending = Idle
     /\ session.screen \notin {"failed", "no_songs"}) =>
        IF session.happy_count = Len(session.journey_path) - 1
        THEN session.screen = "complete" /\ Cleared
        ELSE /\ JourneyShown
             /\ session.happy_count < Len(session.journey_path) - 1

\* a journey complete after as many positive feedbacks as its path has
\* transitions
C29_Completed ==
    /\ session.only_happy /\ session.screen = "complete"
    /\ session.happy_count = Len(session.journey_path) - 1
    /\ Cleared

\* C30: on a journey shown the mood locked in is the emotion of the stored
\* path at the current step
C30_MoodOfStep ==
    JourneyShown => session.detected_mood = Str(StoredEmotions[Step + 1])

====
